---- MODULE Spec2Model ----
(***************************************************************************)
(* State-machine model of the cyxchat core library.                        *)
(*                                                                         *)
(* Each subsystem is a specification of its own over the variables it      *)
(* owns (the other subsystems' variables keep their initial value):        *)
(*   SpecConn  - connection manager + relay client (connection.c, relay.c) *)
(*   SpecAnn   - key-exchange announces of the connection manager           *)
(*   SpecKey   - inbound Announces and the keys they carry                  *)
(*   SpecChat  - chat engine: fragmentation, reassembly, pull queue         *)
(*   SpecDns, SpecGossip - name service: cache, lookups, gossip (dns.c)    *)
(*   SpecTomb  - name service: tombstones in the cache                     *)
(*   SpecQuery - name service: query ids of pending lookups                *)
(*   SpecFileSend, SpecFileRecv - file transfer engine (file.c)            *)
(*   SpecFileChunk - file transfer engine: who may send chunks             *)
(*   SpecGroupApi, SpecGroup - group engine (group.c)                      *)
(*   SpecGroupLeft - group engine: operations on a group left              *)
(*   SpecRelay - relay sessions under polls (relay.c)                      *)
(*   SpecQueue - the pull queue of the chat engine at capacity (chat.c)    *)
(*   SpecMail  - mail engine (mail.c)                                      *)
(*   SpecPresence - presence engine (presence.c)                           *)
(*   SpecContact  - contact list (contact.c)                               *)
(*                                                                         *)
(* Time.  get_time_ms() is the monotonic clock `clock`; the host passes    *)
(* the current reading of that clock as now_ms to every poll.  Frames the  *)
(* transport hands up during a poll are the receive actions taken before   *)
(* the Poll action at the same clock value.                                *)
(***************************************************************************)
EXTENDS Integers, Sequences, FiniteSets, TLC

VARIABLES
    clock,          \* get_time_ms(): monotonic milliseconds
    ticks,          \* number of clock advances so far (model bound only)
    peers,          \* cyxchat_conn_ctx.peers[]   : NodeId -> cyxchat_peer_conn_t
    pending,        \* cyxchat_conn_ctx.pending[] : NodeId -> cyxchat_pending_conn_t
    relay_conns,    \* cyxchat_relay_ctx.connections[] : NodeId -> relay session
    relay_servers,  \* cyxchat_relay_ctx.server_count
    ann_ok_at,      \* history: times of the last two Announces the transport accepted, 0 = none
    ev,             \* what the most recent handler did (callbacks fired, frames emitted)
    frag_buffer,    \* cyxchat_ctx.frag_buffer[] : slot -> cyxchat_frag_entry_t
    recv_queue,     \* cyxchat_ctx.recv_queue[]  : slot -> cyxchat_recv_msg_t
    recv_head,      \* cyxchat_ctx.recv_head
    recv_tail,      \* cyxchat_ctx.recv_tail
    net,            \* wire frames handed to the onion layer, not yet forgotten by the network
    msgs_sent,      \* history: text length of each message sent, by message number
    delivered,      \* history: how often each message was pushed to the pull queue
    deliveries,     \* number of frames handed up so far (model bound only)
    dns_cache,      \* cyxchat_dns_ctx.cache[] : slot -> dns_cache_entry_t, over the
                    \* slots written so far (the others are as calloc left them)
    cache_count,    \* cyxchat_dns_ctx.cache_count
    pending_lookups,\* cyxchat_dns_ctx.pending_lookups[]
    next_query_id,  \* cyxchat_dns_ctx.next_query_id
    dns_router,     \* cyxchat_dns_ctx.router # NULL
    has_crypto,     \* the build defines CYXWIZ_HAS_CRYPTO
    is_registered,  \* cyxchat_dns_ctx.is_registered
    my_record,      \* cyxchat_dns_ctx.my_record
    last_refresh,   \* cyxchat_dns_ctx.last_refresh
    pending_register,\* cyxchat_dns_ctx.pending_register
    wall,           \* Unix time, in model units
    dns_crashed,    \* the process was aborted after a stack overrun
    transfers,      \* cyxchat_file_ctx.transfers[] : slot -> file_transfer_slot_t, over
                    \* the active slots
    transfer_count, \* cyxchat_file_ctx.transfer_count
    file_crashed,   \* the process was aborted by a stack overrun in send_next_chunk
    groups,         \* cyxchat_group_ctx.groups[0 .. group_count)
    group_count,    \* cyxchat_group_ctx.group_count
    mail_stored,    \* cyxchat_mail_ctx.stored[0 .. stored_count): the mail each slot
                    \* points to, or NullMail
    mail_pending,   \* cyxchat_mail_ctx.pending[]
    mail_owned,     \* the mails the host has created and not yet handed to the engine
    presence,       \* cyxchat_presence_ctx: our status and the auto-away fields
    contacts        \* cyxchat_contact_list.contacts[0 .. count)

connVars == <<peers, pending, relay_conns, relay_servers, ann_ok_at>>

chatVars == <<frag_buffer, recv_queue, recv_head, recv_tail, net, msgs_sent, delivered,
              deliveries>>

dnsVars == <<dns_cache, cache_count, pending_lookups, next_query_id, dns_router, has_crypto,
             is_registered, my_record, last_refresh, pending_register, wall, dns_crashed>>

fileVars == <<transfers, transfer_count, file_crashed>>

groupVars == <<groups, group_count>>

mailVars == <<mail_stored, mail_pending, mail_owned>>

\* mail engine, presence engine and contact list
appVars == <<mail_stored, mail_pending, mail_owned, presence, contacts>>

vars == <<clock, ticks, ev, peers, pending, relay_conns, relay_servers, ann_ok_at,
          frag_buffer, recv_queue, recv_head, recv_tail, net, msgs_sent, delivered,
          deliveries, dns_cache, cache_count, pending_lookups, next_query_id, dns_router,
          has_crypto, is_registered, my_record, last_refresh, pending_register, wall,
          dns_crashed, transfers, transfer_count, file_crashed, groups, group_count,
          mail_stored, mail_pending, mail_owned, presence, contacts>>

(***************************************************************************)
(* Bounds of the model                                                     *)
(***************************************************************************)
MaxTicks == 2
NodeIds == {"n1"}
\* clock advances of the connection specification: just below and at the hole
\* punch timeout, and the peer timeout
Steps == {4999, 5000, 90000}
\* clock advances of the announce specification: just below and at the throttle
StepsAnn == {59999, 60000}
\* relay keepalive specification: number of clock advances and their size
MaxRelayTicks == 3
StepsRelay == {10000}
\* reading of the monotonic clock at construction
StartClock == 100000
\* chat specification: messages sent, frames handed up, sends per message that
\* can succeed, text lengths (one frame; two, three and four fragments), and
\* clock advances at and just above the fragment timeout
MsgNums == {1}
MaxDeliveries == 5
MaxFrames == 4
TextLens == {5, 81, 200, 300}
StepsChat == {30000, 30001}
\* receive queue specification: number of frames delivered
MaxQueueDeliveries == 33
\* DNS specifications: clock advances (lookup timeout and record TTL for the
\* cache, refresh interval for the gossip), Unix time, names, the timestamps
\* and hop counts of incoming records, frame types handled as a registration,
\* lookups started, and the query ids of remote lookups
MaxDnsTicks == 1
StepsDns == {5000, 3600000}
StepsGossip == {1800000}
MaxWall == 2
Names == {"alice"}
Timestamps == {1, 2}
HopsIn == {2, 3}
RegisterTypes == {208}
MaxLookups == 1
RemoteQueryIds == {7}
\* query id specification: a second name the host looks up again and again
OtherName == "bob"
\* file specification: clock advances (the chunk pacing interval and just past
\* the stall timeout), file lengths (one chunk that fits a frame, three
\* chunks), ids of local and remote files, peers, and start chunks of an accept
MaxFileTicks == 2
StepsFile == {500, 60001}
FileSizes == {100, 2500}
LocalFileIds == {"fa"}
RemoteFileIds == {"fb"}
FilePeers == {"n1", "n2"}
StartChunks == {0, 1}
\* group specifications: table sizes at which a group can be added, key
\* versions from which a key can be rotated, group ids and the nodes that can
\* be members
GroupCounts == {0, 1}
KeyVersions == {1}
GroupIds == {"g1", "g2"}
GroupNodes == {"me", "n1"}
\* mail engine: clock advances, store size, mail ids, recipients already set
MaxMailTicks == 1
StepsMail == {30001}
MaxMailStored == 2
LocalMailIds == {"ma"}
RemoteMailIds == {"mx"}
MailToCounts == {0}
\* presence engine: clock advances, statuses the host sets, auto-away timeouts
MaxPresenceTicks == 2
StepsPresence == {30000, 30001}
PresenceStatuses == {1, 3}
AwayTimeouts == {0, 30000}
\* contact list: node ids
ContactIds == {"n1", "n2", "n3"}
LocalId == "me"
LocalKey == "k0"
RemoteKey == "k1"

(***************************************************************************)
(* Program constants                                                       *)
(***************************************************************************)
CYXCHAT_MAX_PEER_CONNECTIONS == 32
CYXCHAT_HOLE_PUNCH_TIMEOUT_MS == 5000
CYXCHAT_CONNECTION_TIMEOUT_MS == 90000
CYXCHAT_ANNOUNCE_THROTTLE_MS == 60000
CYXCHAT_MAX_RELAY_CONNECTIONS == 16
CYXCHAT_RELAY_TIMEOUT_MS == 10000
CYXCHAT_RELAY_KEEPALIVE_MS == 30000
CYXCHAT_MSG_ID_SIZE == 8
CYXCHAT_MAX_TEXT_LEN == 256
CYXCHAT_MSG_TEXT == 16
CYXCHAT_FLAG_ENCRYPTED == 1
CYXCHAT_FLAG_FRAGMENTED == 4
CYXCHAT_FLAG_REPLY == 8
CYXCHAT_MAX_CHUNK_TEXT == 80
WIRE_HEADER_SIZE == 10
WIRE_MAX_PAYLOAD == 250
RECV_QUEUE_SIZE == 32
RECV_MSG_MAX_DATA == 4096
FRAG_BUFFER_SIZE == 8
FRAG_MAX_CHUNKS == 32
FRAG_MAX_TEXT == 4096
FRAG_TIMEOUT_MS == 30000
CYXCHAT_DNS_CACHE_SIZE == 128
CYXCHAT_DNS_DEFAULT_TTL == 3600
CYXCHAT_DNS_REFRESH_INTERVAL == 1800
CYXCHAT_DNS_GOSSIP_HOPS == 3
CYXCHAT_DNS_LOOKUP_TIMEOUT == 5000
CYXCHAT_MSG_DNS_REGISTER == 208
CYXCHAT_MSG_DNS_LOOKUP == 210
CYXCHAT_MSG_DNS_RESPONSE == 211
CYXCHAT_MSG_DNS_UPDATE == 212
CYXCHAT_MSG_DNS_ANNOUNCE == 214

\* a - b in uint64_t arithmetic: a wrapped difference is at least 2^64 - b, far
\* above every threshold it is compared with; Wrapped stands for it
Wrapped == 2000000000
Sub64(a, b) == IF a >= b THEN a - b ELSE Wrapped

ConnStates == {"Disconnected", "Discovering", "Connecting", "Relaying", "Connected"}
\* inbound frame classes by first byte, in the order on_transport_recv tests them
FrameClasses == {"relay", "announce", "discovery", "onion", "raw"}

(***************************************************************************)
(* Connection manager: records                                             *)
(***************************************************************************)
\* a peers[] slot after memset(0) / calloc
ZeroPeer == [active |-> FALSE, state |-> "Disconnected", last_activity |-> 0,
             last_announce_sent |-> 0, last_key_exchange |-> 0, is_relayed |-> FALSE]

ZeroPending == [active |-> FALSE, start_time |-> 0, has_cb |-> FALSE]

ZeroRelayConn == [active |-> FALSE, last_activity |-> 0, last_keepalive |-> 0]

NoCb == <<>>

\* the outputs of one handler
EvNone == [op |-> "init", peer |-> "none", cls |-> "none",
           cb |-> [p \in NodeIds |-> NoCb],
           route |-> "none",
           announce |-> "none",
           fallback |-> [p \in NodeIds |-> "none"],
           timed_out |-> {},
           relay_freed |-> {},
           counted |-> {},
           key |-> "none",
           chat |-> [msg |-> 0, pushed |-> FALSE, reassembled |-> FALSE, on_message |-> FALSE,
                     data |-> <<>>, result |-> "none", count |-> 0],
           dns |-> [rx |-> [type |-> 0], stored |-> FALSE, matched |-> FALSE,
                    emitted |-> <<>>, cb |-> <<>>, lookup_cb |-> {}, result |-> "none"],
           file |-> [rx |-> [type |-> 0], id |-> "none", emitted |-> <<>>, cb |-> <<>>,
                     result |-> "none"],
           group |-> [id |-> "none", target |-> "none", result |-> "none"],
           mail |-> [id |-> "none", result |-> "none", cb |-> <<>>],
           contact |-> [id |-> "none", result |-> "none"]]

Ev(op, p) == [EvNone EXCEPT !.op = op, !.peer = p]

find_peer_conn(ps, p) == ps[p].active

find_pending(pd, p) == pd[p].active

\* alloc_peer_conn: a free slot exists while fewer than the cap are active
alloc_peer_conn_ok(ps) ==
    Cardinality({q \in NodeIds : ps[q].active}) < CYXCHAT_MAX_PEER_CONNECTIONS

alloc_pending_ok(pd) ==
    Cardinality({q \in NodeIds : pd[q].active}) < CYXCHAT_MAX_PEER_CONNECTIONS

\* set_peer_state: only the state field changes here (connected_at is not modelled)
set_peer_state(peer, new_state) == [peer EXCEPT !.state = new_state]

(***************************************************************************)
(* Relay client                                                            *)
(***************************************************************************)
find_connection(rc, p) == rc[p].active

alloc_connection_ok(rc) ==
    Cardinality({q \in NodeIds : rc[q].active}) < CYXCHAT_MAX_RELAY_CONNECTIONS

\* cyxchat_relay_connect; tx_ok is the transport's answer to the CONNECT frame
cyxchat_relay_connect(rc, nsrv, p, now, tx_ok) ==
    IF nsrv = 0 THEN [ok |-> FALSE, conns |-> rc]
    ELSE IF find_connection(rc, p) THEN [ok |-> TRUE, conns |-> rc]
    ELSE IF ~alloc_connection_ok(rc) THEN [ok |-> FALSE, conns |-> rc]
    ELSE IF tx_ok
         THEN [ok |-> TRUE,
               conns |-> [rc EXCEPT ![p] = [active |-> TRUE, last_activity |-> now,
                                            last_keepalive |-> now]]]
         ELSE [ok |-> FALSE, conns |-> rc]

\* cyxchat_relay_disconnect
cyxchat_relay_disconnect(rc, p) ==
    IF find_connection(rc, p) THEN [rc EXCEPT ![p].active = FALSE] ELSE rc

\* the idle check of cyxchat_relay_poll with an inclusive comparison
RelayPollFreed_inclusive(rc, now) ==
    {p \in NodeIds : rc[p].active /\
        Sub64(now, rc[p].last_activity) >= CYXCHAT_RELAY_TIMEOUT_MS}

\* cyxchat_relay_poll: sessions freed by the idle timeout
RelayPollFreed(rc, now) ==
    {p \in NodeIds : rc[p].active /\
        Sub64(now, rc[p].last_activity) > CYXCHAT_RELAY_TIMEOUT_MS}

\* cyxchat_relay_poll: sessions that emit a KEEPALIVE
RelayPollKeepalive(rc, now) ==
    {p \in NodeIds : rc[p].active /\ p \notin RelayPollFreed(rc, now) /\
        Sub64(now, rc[p].last_keepalive) > CYXCHAT_RELAY_KEEPALIVE_MS}

cyxchat_relay_poll(rc, now) ==
    [p \in NodeIds |->
        IF p \in RelayPollFreed(rc, now) THEN [rc[p] EXCEPT !.active = FALSE]
        ELSE IF p \in RelayPollKeepalive(rc, now) THEN [rc[p] EXCEPT !.last_keepalive = now]
        ELSE rc[p]]

(***************************************************************************)
(* Initial state                                                           *)
(***************************************************************************)
ConnInit ==
    /\ clock = StartClock
    /\ ticks = 0
    /\ peers = [p \in NodeIds |-> ZeroPeer]
    /\ pending = [p \in NodeIds |-> ZeroPending]
    /\ relay_conns = [p \in NodeIds |-> ZeroRelayConn]
    /\ relay_servers \in {0, 1}     \* CYXCHAT_RELAY in the environment or not
    /\ ann_ok_at = [p \in NodeIds |-> [last |-> 0, prev |-> 0]]
    /\ ev = EvNone

(***************************************************************************)
(* Connection manager: handlers                                            *)
(***************************************************************************)
\* the monotonic clock advances
Tick ==
    /\ ticks < MaxTicks
    /\ \E d \in Steps : clock' = clock + d
    /\ ticks' = ticks + 1
    /\ ev' = Ev("tick", "none")
    /\ UNCHANGED connVars
    /\ UNCHANGED <<chatVars, dnsVars, fileVars, groupVars, appVars>>

\* cyxchat_conn_connect(peer_id, callback)
Connect(p, has_cb) ==
    LET peer == peers[p] IN
    /\ IF find_peer_conn(peers, p) /\ peer.state \in {"Connected", "Relaying"}
       THEN /\ ev' = [Ev("connect", p) EXCEPT !.cb[p] = IF has_cb THEN <<peer.state, "OK">> ELSE NoCb]
            /\ UNCHANGED <<peers, pending>>
       ELSE IF find_pending(pending, p)
       THEN /\ ev' = Ev("connect", p)
            /\ UNCHANGED <<peers, pending>>
       ELSE IF ~find_peer_conn(peers, p) /\ ~alloc_peer_conn_ok(peers)
       THEN /\ ev' = Ev("connect", p)
            /\ UNCHANGED <<peers, pending>>
       ELSE LET slot == IF find_peer_conn(peers, p) THEN peer
                        ELSE [ZeroPeer EXCEPT !.active = TRUE] IN
            IF ~alloc_pending_ok(pending)
            THEN /\ ev' = Ev("connect", p)
                 /\ peers' = [peers EXCEPT ![p] = slot]
                 /\ UNCHANGED pending
            ELSE /\ ev' = Ev("connect", p)
                 /\ peers' = [peers EXCEPT ![p] = set_peer_state(slot, "Connecting")]
                 /\ pending' = [pending EXCEPT ![p] =
                        [active |-> TRUE, start_time |-> clock, has_cb |-> has_cb]]
    /\ UNCHANGED <<clock, ticks, relay_conns, relay_servers, ann_ok_at>>

\* cyxchat_conn_disconnect(peer_id)
Disconnect(p) ==
    /\ pending' = [pending EXCEPT ![p].active = FALSE]
    /\ IF find_peer_conn(peers, p)
       THEN /\ relay_conns' = IF peers[p].is_relayed
                              THEN cyxchat_relay_disconnect(relay_conns, p)
                              ELSE relay_conns
            /\ peers' = [peers EXCEPT ![p] = set_peer_state(peers[p], "Disconnected")]
            /\ ev' = Ev("disconnect", p)
       ELSE /\ ev' = Ev("disconnect", p)
            /\ UNCHANGED <<peers, relay_conns>>
    /\ UNCHANGED <<clock, ticks, relay_servers, ann_ok_at>>

\* the peers whose bytes_received a handler adds the frame length to
Counted(ps, p) == IF find_peer_conn(ps, p) THEN {p} ELSE {}

\* on_relay_data: a payload de-tunnelled by the relay client, sent by `src`
on_relay_data(ps, src, now) ==
    IF find_peer_conn(ps, src) THEN [ps EXCEPT ![src].last_activity = now] ELSE ps

\* cyxchat_relay_is_relay_message: first byte in 0xE0..0xE5
cyxchat_relay_is_relay_message(cls) == cls = "relay"

\* cyxchat_relay_handle_message: an inbound DATA addressed to us is handed to
\* on_relay_data with its inner sender; inner = "none" is any other relay frame
cyxchat_relay_handle_message(ps, inner, now) ==
    IF inner = "none" THEN ps ELSE on_relay_data(ps, inner, now)

is_discovery_message(cls) == cls \in {"announce", "discovery"}

\* whether on_peer_key_received drops the key of a peer it heard from lately
key_throttled(conn, now) ==
    /\ conn.active
    /\ conn.last_key_exchange > 0
    /\ Sub64(now, conn.last_key_exchange) < CYXCHAT_ANNOUNCE_THROTTLE_MS

\* on_peer_key_received(peer_id, peer_pubkey): the discovery handler calls it
\* for an Announce; key_ok is the answer of cyxwiz_onion_add_peer_key.  The
\* result is the peers table and what became of the key: on "ok" the entry of
\* the mesh peer table, not the PeerConn, is set to connected.
on_peer_key_received(ps, p, now, key_ok) ==
    LET ps1 == IF ~find_peer_conn(ps, p) /\ alloc_peer_conn_ok(ps)
               THEN [ps EXCEPT ![p] = [ZeroPeer EXCEPT !.active = TRUE]]
               ELSE ps
    IN  IF key_throttled(ps1[p], now)
        THEN [peers |-> ps1, key |-> "throttled"]
        ELSE [peers |-> IF ps1[p].active
                        THEN [ps1 EXCEPT ![p].last_key_exchange = now] ELSE ps1,
              key |-> IF key_ok THEN "ok" ELSE "fail"]

\* on_transport_recv(from, data): cls is the class of data[0]; inner is the
\* sender inside a relay DATA frame.  The discovery handler hands the key of
\* an Announce to on_peer_key_received; the onion handler is external and
\* leaves the connection tables alone.
on_transport_recv(from, cls, inner, key_ok) ==
    /\ IF cyxchat_relay_is_relay_message(cls)
       THEN /\ peers' = cyxchat_relay_handle_message(peers, inner, clock)
            /\ ev' = [Ev("recv", from) EXCEPT !.cls = cls,
                                              !.counted = IF inner = "none" THEN {}
                                                          ELSE Counted(peers, inner)]
            /\ UNCHANGED pending
       ELSE LET kx == IF cls = "announce"
                      THEN on_peer_key_received(peers, from, clock, key_ok)
                      ELSE [peers |-> peers, key |-> "none"]
                ps1 == kx.peers
            IN  IF cls = "onion"
                THEN /\ peers' = ps1
                     /\ ev' = [Ev("recv", from) EXCEPT !.cls = cls]
                     /\ UNCHANGED pending
                ELSE IF ~find_peer_conn(ps1, from)
                THEN /\ peers' = ps1
                     /\ ev' = [Ev("recv", from) EXCEPT !.cls = cls, !.key = kx.key]
                     /\ UNCHANGED pending
                ELSE LET peer == [ps1[from] EXCEPT !.last_activity = clock] IN
                     IF peer.state = "Connecting"
                     THEN /\ peers' = [ps1 EXCEPT ![from] =
                                 [set_peer_state(peer, "Connected") EXCEPT !.is_relayed = FALSE]]
                          /\ ev' = [Ev("recv", from) EXCEPT !.cls = cls,
                                 !.key = kx.key,
                                 !.counted = Counted(ps1, from),
                                 !.cb[from] = IF find_pending(pending, from) /\ pending[from].has_cb
                                              THEN <<"Connected", "OK">> ELSE NoCb]
                          /\ pending' = [pending EXCEPT ![from].active = FALSE]
                     ELSE /\ peers' = [ps1 EXCEPT ![from] = peer]
                          /\ ev' = [Ev("recv", from) EXCEPT !.cls = cls, !.key = kx.key,
                                                            !.counted = Counted(ps1, from)]
                          /\ UNCHANGED pending
    /\ UNCHANGED <<clock, ticks, relay_conns, relay_servers, ann_ok_at>>

\* on_peer_discovered throttling against the hole punch timeout
announce_due_punch(is_new_peer, now, last_announce_sent) ==
    is_new_peer \/ Sub64(now, last_announce_sent) >= CYXCHAT_HOLE_PUNCH_TIMEOUT_MS

\* whether on_peer_discovered calls send_announce_to_peer
announce_due(is_new_peer, now, last_announce_sent) ==
    is_new_peer \/ Sub64(now, last_announce_sent) >= CYXCHAT_ANNOUNCE_THROTTLE_MS

\* on_peer_discovered(peer); tx_ok is the transport's answer to the Announce
on_peer_discovered(p, tx_ok) ==
    LET is_new_peer == ~find_peer_conn(peers, p)
        ps1 == IF is_new_peer
               THEN IF alloc_peer_conn_ok(peers)
                    THEN [peers EXCEPT ![p] = [ZeroPeer EXCEPT !.active = TRUE]]
                    ELSE peers
               ELSE [peers EXCEPT ![p].last_activity = clock]
        send == ps1[p].active /\ announce_due(is_new_peer, clock, ps1[p].last_announce_sent)
    IN  /\ peers' = IF send THEN [ps1 EXCEPT ![p].last_announce_sent = clock] ELSE ps1
        /\ ev' = [Ev("discovered", p) EXCEPT
                    !.announce = IF ~send THEN "none" ELSE IF tx_ok THEN "ok" ELSE "fail"]
        /\ ann_ok_at' = IF send /\ tx_ok
                        THEN [ann_ok_at EXCEPT ![p] = [last |-> clock, prev |-> ann_ok_at[p].last]]
                        ELSE ann_ok_at
        /\ UNCHANGED <<clock, ticks, pending, relay_conns, relay_servers>>

\* on_dht_node_discovered(node_id)
on_dht_node_discovered(p) ==
    /\ peers' = IF ~find_peer_conn(peers, p) /\ alloc_peer_conn_ok(peers)
                THEN [peers EXCEPT ![p] = [ZeroPeer EXCEPT !.active = TRUE]]
                ELSE peers
    /\ ev' = Ev("dht_node", p)
    /\ UNCHANGED <<clock, ticks, pending, relay_conns, relay_servers, ann_ok_at>>

\* cyxchat_conn_send that never consults is_relayed
send_route_direct(peer) == "direct"

\* the route cyxchat_conn_send takes for a peer
send_route(peer) == IF peer.is_relayed THEN "relay" ELSE "direct"

\* cyxchat_conn_send(peer_id, data); tx_ok is the transport's answer
cyxchat_conn_send(p, tx_ok) ==
    /\ IF ~find_peer_conn(peers, p)
       THEN /\ ev' = Ev("send", p)
            /\ UNCHANGED <<peers, relay_conns>>
       ELSE LET route == send_route(peers[p])
                \* cyxchat_relay_send: needs a session, then send_to_relay
                ok == IF route = "relay"
                      THEN find_connection(relay_conns, p) /\ tx_ok
                      ELSE tx_ok
            IN  /\ ev' = [Ev("send", p) EXCEPT !.route = route]
                /\ relay_conns' = IF route = "relay" /\ ok
                                  THEN [relay_conns EXCEPT ![p].last_activity = clock]
                                  ELSE relay_conns
                /\ peers' = IF ok THEN [peers EXCEPT ![p].last_activity = clock] ELSE peers
    /\ UNCHANGED <<clock, ticks, pending, relay_servers, ann_ok_at>>

\* cyxchat_conn_force_relay(peer_id)
cyxchat_conn_force_relay(p, tx_ok) ==
    /\ IF ~find_peer_conn(peers, p)
       THEN /\ ev' = Ev("force_relay", p)
            /\ UNCHANGED <<peers, relay_conns>>
       ELSE LET r == cyxchat_relay_connect(relay_conns, relay_servers, p, clock, tx_ok) IN
            /\ relay_conns' = r.conns
            /\ ev' = Ev("force_relay", p)
            /\ peers' = IF r.ok
                        THEN [peers EXCEPT ![p] =
                                [set_peer_state(peers[p], "Relaying") EXCEPT !.is_relayed = TRUE]]
                        ELSE peers
    /\ UNCHANGED <<clock, ticks, pending, relay_servers, ann_ok_at>>

\* pending records whose hole punch has timed out at `now`
punch_timed_out(pd, now) ==
    {p \in NodeIds : pd[p].active /\
        Sub64(now, pd[p].start_time) >= CYXCHAT_HOLE_PUNCH_TIMEOUT_MS}

\* the peer-timeout loop comparing against the hole punch timeout
peer_timed_out_punch(peer, now) ==
    /\ peer.active
    /\ peer.state \in {"Connected", "Relaying"}
    /\ Sub64(now, peer.last_activity) >= CYXCHAT_HOLE_PUNCH_TIMEOUT_MS

\* whether the peer-timeout loop of cyxchat_conn_poll disconnects this peer
peer_timed_out(peer, now) ==
    /\ peer.active
    /\ peer.state \in {"Connected", "Relaying"}
    /\ Sub64(now, peer.last_activity) >= CYXCHAT_CONNECTION_TIMEOUT_MS

\* cyxchat_conn_poll(now_ms) with now_ms = clock; tx[p] is the transport's
\* answer to a relay CONNECT for p.  The pending records are independent of one
\* another: the relay session cap is above the number of node ids.
cyxchat_conn_poll(tx) ==
    LET now == clock
        rc1 == cyxchat_relay_poll(relay_conns, now)
        due == punch_timed_out(pending, now)
        \* relay fallback of the pending loop
        rr(p) == cyxchat_relay_connect(rc1, relay_servers, p, now, tx[p])
        fb == [p \in NodeIds |->
                 IF p \in due /\ find_peer_conn(peers, p)
                 THEN IF rr(p).ok THEN "ok" ELSE "fail"
                 ELSE "none"]
        rc2 == [p \in NodeIds |-> IF fb[p] # "none" THEN rr(p).conns[p] ELSE rc1[p]]
        ps1 == [p \in NodeIds |->
                 IF fb[p] = "ok"
                 THEN [set_peer_state(peers[p], "Relaying") EXCEPT !.is_relayed = TRUE]
                 ELSE IF fb[p] = "fail" THEN set_peer_state(peers[p], "Disconnected")
                 ELSE peers[p]]
        \* peer timeout loop
        to == {p \in NodeIds : peer_timed_out(ps1[p], now)}
        ps2 == [p \in NodeIds |->
                 IF p \in to THEN set_peer_state(ps1[p], "Disconnected") ELSE ps1[p]]
    IN  /\ relay_conns' = rc2
        /\ pending' = [p \in NodeIds |->
                         IF p \in due THEN [pending[p] EXCEPT !.active = FALSE] ELSE pending[p]]
        /\ peers' = ps2
        /\ ev' = [Ev("poll", "none") EXCEPT
                    !.fallback = fb,
                    !.cb = [p \in NodeIds |->
                              IF fb[p] = "ok" /\ pending[p].has_cb THEN <<"Relaying", "OK">>
                              ELSE IF fb[p] = "fail" /\ pending[p].has_cb
                              THEN <<"Disconnected", "ERR_TIMEOUT">>
                              ELSE NoCb],
                    !.timed_out = to,
                    !.relay_freed = RelayPollFreed(relay_conns, now)]
        /\ UNCHANGED <<clock, ticks, relay_servers, ann_ok_at>>

(***************************************************************************)
(* Chat engine (chat.c): wire format                                       *)
(*                                                                         *)
(* A frame is the byte sequence handed to cyxwiz_onion_send_to.  Message   *)
(* ids are 8 random bytes; the model draws them fresh, as the bytes        *)
(* <<n, 0, 0, 0, 0, 0, 0, 0>> for the n-th message sent.  on_onion_delivery *)
(* stamps fragments with cyxchat_timestamp_ms() and cyxchat_poll expires   *)
(* them against the host's now_ms; both read `clock`.                      *)
(***************************************************************************)
Bytes(n) == [k \in 1..n |-> 0]

MsgIdOf(n) == <<n % 256>> \o Bytes(CYXCHAT_MSG_ID_SIZE - 1)

\* the text the n-th message carries: a C string, so no byte of it is zero
TextOf(n, len) == [k \in 1..len |-> ((k + 7 * n) % 255) + 1]

HasFlag(flags, bit) == (flags \div bit) % 2 = 1

serialize_wire_header(type, flags, msg_id) == <<type, flags % 256>> \o msg_id

deserialize_wire_header(data) ==
    [type |-> data[1], flags |-> data[2], msg_id |-> SubSeq(data, 3, WIRE_HEADER_SIZE)]

\* serialize_text_msg into a buffer of WIRE_MAX_PAYLOAD bytes; <<>> is the
\* return value 0
serialize_text_msg(msg_id, flags, text, reply_to) ==
    IF Len(text) > 255 \/ WIRE_HEADER_SIZE + 1 + Len(text) > WIRE_MAX_PAYLOAD THEN <<>>
    ELSE IF reply_to # <<>> /\ HasFlag(flags, CYXCHAT_FLAG_REPLY)
    THEN IF WIRE_HEADER_SIZE + 1 + Len(text) + CYXCHAT_MSG_ID_SIZE > WIRE_MAX_PAYLOAD THEN <<>>
         ELSE serialize_wire_header(CYXCHAT_MSG_TEXT, flags, msg_id)
                \o <<Len(text) % 256>> \o text \o reply_to
    ELSE serialize_wire_header(CYXCHAT_MSG_TEXT, flags, msg_id) \o <<Len(text) % 256>> \o text

\* the fragmenting branch of cyxchat_send_text: the frames of the loop, in
\* the order it sends them
send_text_fragments(msg_id, text) ==
    LET total_chunks == (Len(text) + CYXCHAT_MAX_CHUNK_TEXT - 1) \div CYXCHAT_MAX_CHUNK_TEXT
    IN  [i \in 1..total_chunks |->
            LET offset == (i - 1) * CYXCHAT_MAX_CHUNK_TEXT
                rest == Len(text) - offset
                chunk_len == IF rest > CYXCHAT_MAX_CHUNK_TEXT
                             THEN CYXCHAT_MAX_CHUNK_TEXT ELSE rest
            IN  serialize_wire_header(CYXCHAT_MSG_TEXT,
                    CYXCHAT_FLAG_ENCRYPTED + CYXCHAT_FLAG_FRAGMENTED, msg_id)
                \o <<(i - 1) % 256, total_chunks % 256, chunk_len % 256>>
                \o SubSeq(text, offset + 1, offset + chunk_len)]

\* cyxchat_send_text up to its sends: the frames it builds, and the error it
\* returns before sending anything (reply_to = <<>> is NULL or the zero id)
send_text_frames(msg_id, text, reply_to) ==
    LET is_reply == reply_to # <<>>
        first_chunk_max == IF is_reply THEN CYXCHAT_MAX_CHUNK_TEXT - CYXCHAT_MSG_ID_SIZE
                           ELSE CYXCHAT_MAX_CHUNK_TEXT
    IN  IF Len(text) <= first_chunk_max
        THEN LET flags == IF is_reply THEN CYXCHAT_FLAG_ENCRYPTED + CYXCHAT_FLAG_REPLY
                          ELSE CYXCHAT_FLAG_ENCRYPTED
                 wire == serialize_text_msg(msg_id, flags, text, reply_to)
             IN  IF wire = <<>> THEN [err |-> "ERR_INVALID", fragmented |-> FALSE, frames |-> <<>>]
                 ELSE [err |-> "OK", fragmented |-> FALSE, frames |-> <<wire>>]
        ELSE IF (Len(text) + CYXCHAT_MAX_CHUNK_TEXT - 1) \div CYXCHAT_MAX_CHUNK_TEXT > 255
        THEN [err |-> "ERR_INVALID", fragmented |-> TRUE, frames |-> <<>>]
        ELSE [err |-> "OK", fragmented |-> TRUE, frames |-> send_text_fragments(msg_id, text)]

(***************************************************************************)
(* Chat engine: fragment reassembly and receive queue                      *)
(***************************************************************************)
FragSlots == 0..(FRAG_BUFFER_SIZE - 1)
QueueSlots == 0..(RECV_QUEUE_SIZE - 1)

\* a calloc'ed cyxchat_frag_entry_t; text[] is kept up to its last written
\* byte, everything beyond reads as zero
ZeroFrag == [valid |-> FALSE, from |-> "none", msg_id |-> Bytes(CYXCHAT_MSG_ID_SIZE),
             total_frags |-> 0, received_mask |-> {}, received_count |-> 0,
             text |-> <<>>, chunk_lengths |-> [i \in 0..(FRAG_MAX_CHUNKS - 1) |-> 0],
             start_time_ms |-> 0]

ZeroRecvMsg == [valid |-> FALSE, from |-> "none", type |-> 0, data |-> <<>>]

MinOf(S) == CHOOSE x \in S : \A y \in S : x <= y

\* text[0 .. n) of a buffer, with the zero fill made explicit
ReadBuf(buf, n) == [k \in 1..n |-> IF k <= Len(buf) THEN buf[k] ELSE 0]

\* memcpy(buf + off, bytes, Len(bytes))
WriteBuf(buf, off, bytes) ==
    LET n == IF Len(buf) > off + Len(bytes) THEN Len(buf) ELSE off + Len(bytes)
    IN  IF Len(bytes) = 0 THEN buf
        ELSE [k \in 1..n |-> IF k > off /\ k <= off + Len(bytes) THEN bytes[k - off]
                             ELSE IF k <= Len(buf) THEN buf[k] ELSE 0]

\* what frag_find_or_create writes into the slot it hands out; chunk_lengths
\* is not among the fields it resets
ResetFrag(e, from, msg_id, total_frags, now) ==
    [e EXCEPT !.from = from, !.msg_id = msg_id, !.total_frags = total_frags,
              !.received_mask = {}, !.received_count = 0, !.text = <<>>,
              !.start_time_ms = now, !.valid = TRUE]

\* frag_find_or_create: the slot it returns and the buffer afterwards
frag_find_or_create(fb, from, msg_id, total_frags, now) ==
    LET found == {i \in FragSlots : fb[i].valid /\ fb[i].from = from /\ fb[i].msg_id = msg_id}
        empty == {i \in FragSlots : ~fb[i].valid}
        oldest_time == MinOf({fb[i].start_time_ms : i \in FragSlots})
        oldest == MinOf({i \in FragSlots : fb[i].start_time_ms = oldest_time})
    IN  IF found # {} THEN [slot |-> MinOf(found), fb |-> fb]
        ELSE IF empty # {}
        THEN [slot |-> MinOf(empty),
              fb |-> [fb EXCEPT ![MinOf(empty)] = ResetFrag(@, from, msg_id, total_frags, now)]]
        ELSE [slot |-> oldest,
              fb |-> [fb EXCEPT ![oldest] = ResetFrag(@, from, msg_id, total_frags, now)]]

RECURSIVE SumLengths(_, _)
\* chunk_lengths[0] + ... + chunk_lengths[n - 1]
SumLengths(lens, n) == IF n = 0 THEN 0 ELSE SumLengths(lens, n - 1) + lens[n - 1]

\* frag_add_chunk: its return value and the entry afterwards
frag_add_chunk(entry, frag_idx, text) ==
    IF frag_idx >= entry.total_frags \/ frag_idx >= FRAG_MAX_CHUNKS
    THEN [ok |-> FALSE, entry |-> entry]
    ELSE IF frag_idx \in entry.received_mask
    THEN [ok |-> FALSE, entry |-> entry]
    ELSE LET e1 == [entry EXCEPT !.chunk_lengths[frag_idx] = Len(text)]
             offset == SumLengths(e1.chunk_lengths, frag_idx)
         IN  IF offset + Len(text) > FRAG_MAX_TEXT
             THEN [ok |-> FALSE, entry |-> e1]
             ELSE [ok |-> TRUE,
                   entry |-> [e1 EXCEPT !.text = WriteBuf(@, offset, text),
                                        !.received_mask = @ \cup {frag_idx},
                                        !.received_count = (@ + 1) % 256]]

frag_is_complete(entry) == entry.received_count = entry.total_frags

\* only called on a complete entry, whose total_frags is at most FRAG_MAX_CHUNKS
frag_get_total_length(entry) == SumLengths(entry.chunk_lengths, entry.total_frags)

\* frag_reassemble: the bytes copied out
frag_reassemble(entry) ==
    LET out_len == IF frag_get_total_length(entry) > FRAG_MAX_TEXT THEN FRAG_MAX_TEXT
                   ELSE frag_get_total_length(entry)
    IN  ReadBuf(entry.text, out_len)

frag_expire_old(fb, now) ==
    [i \in FragSlots |->
        IF fb[i].valid /\ Sub64(now, fb[i].start_time_ms) > FRAG_TIMEOUT_MS
        THEN [fb[i] EXCEPT !.valid = FALSE] ELSE fb[i]]

queue_is_full(head, tail) == (head + 1) % RECV_QUEUE_SIZE = tail

queue_is_empty(head, tail) == head = tail

\* queue_push: queue, head and tail afterwards
queue_push(q, head, tail, from, type, data) ==
    LET tail1 == IF queue_is_full(head, tail) THEN (tail + 1) % RECV_QUEUE_SIZE ELSE tail
        kept == IF Len(data) > RECV_MSG_MAX_DATA THEN SubSeq(data, 1, RECV_MSG_MAX_DATA)
                ELSE data
    IN  [q |-> [q EXCEPT ![head] = [valid |-> TRUE, from |-> from, type |-> type, data |-> kept]],
         head |-> (head + 1) % RECV_QUEUE_SIZE,
         tail |-> tail1]

\* the 2-byte little-endian length prefix on_onion_delivery writes
LE16(n) == <<n % 256, (n \div 256) % 256>>

(***************************************************************************)
(* Chat engine: handlers                                                   *)
(***************************************************************************)
ChatInit ==
    /\ frag_buffer = [i \in FragSlots |-> ZeroFrag]
    /\ recv_queue = [i \in QueueSlots |-> ZeroRecvMsg]
    /\ recv_head = 0
    /\ recv_tail = 0
    /\ net = {}
    /\ msgs_sent = <<>>
    /\ delivered = [m \in MsgNums |-> 0]
    /\ deliveries = 0

\* the wall clock advances
TickChat ==
    /\ ticks < MaxTicks
    /\ \E d \in StepsChat : clock' = clock + d
    /\ ticks' = ticks + 1
    /\ ev' = Ev("tick", "none")
    /\ UNCHANGED connVars
    /\ UNCHANGED <<chatVars, dnsVars, fileVars, groupVars, appVars>>

\* cyxchat_send_text called by peer `from` with us as destination; n_ok is the
\* number of cyxwiz_onion_send_to calls that succeed before one fails
cyxchat_send_text(from, text_len, is_reply, n_ok) ==
    LET n == Len(msgs_sent) + 1
        text == TextOf(n, text_len)
        reply_to == IF is_reply THEN MsgIdOf(255) ELSE <<>>
        r == send_text_frames(MsgIdOf(n), text, reply_to)
    IN  /\ n \in MsgNums
        /\ n_ok <= Len(r.frames)
        /\ net' = net \cup {[from |-> from, data |-> r.frames[i]] : i \in 1..n_ok}
        /\ msgs_sent' = Append(msgs_sent, [text_len |-> text_len, fragmented |-> r.fragmented])
        /\ ev' = [Ev("send_text", from) EXCEPT
                    !.chat.msg = n,
                    !.chat.result = IF r.err # "OK" THEN r.err
                                    ELSE IF n_ok < Len(r.frames) THEN "ERR_NETWORK" ELSE "OK"]
        /\ UNCHANGED <<clock, ticks, frag_buffer, recv_queue, recv_head, recv_tail,
                       delivered, deliveries>>
        /\ UNCHANGED connVars
        /\ UNCHANGED <<dnsVars, fileVars, groupVars, appVars>>

\* the number of the message a message id belongs to
MsgNumOf(msg_id) == msg_id[1]

\* on_onion_delivery(from, data, len); only TEXT frames are ever on the wire
\* here, the callbacks of the other message types are not modelled
on_onion_delivery(from, data) ==
    LET len == Len(data)
        h == deserialize_wire_header(data)
        offset == WIRE_HEADER_SIZE
        m == MsgNumOf(h.msg_id)
    IN
    /\ deliveries' = deliveries + 1
    /\ UNCHANGED <<clock, ticks, net, msgs_sent>>
    /\ UNCHANGED connVars
    /\ UNCHANGED <<dnsVars, fileVars, groupVars, appVars>>
    /\ IF len < WIRE_HEADER_SIZE
       THEN /\ ev' = Ev("deliver", from)
            /\ UNCHANGED <<frag_buffer, recv_queue, recv_head, recv_tail, delivered>>
       ELSE IF h.type = CYXCHAT_MSG_TEXT /\ HasFlag(h.flags, CYXCHAT_FLAG_FRAGMENTED)
       THEN IF len < offset + 3 \/ len < offset + 3 + data[offset + 3]
            THEN /\ ev' = [Ev("deliver", from) EXCEPT !.chat.msg = m]
                 /\ UNCHANGED <<frag_buffer, recv_queue, recv_head, recv_tail, delivered>>
            ELSE LET frag_idx == data[offset + 1]
                     total_frags == data[offset + 2]
                     text_len == data[offset + 3]
                     fc == frag_find_or_create(frag_buffer, from, h.msg_id, total_frags, clock)
                     ac == frag_add_chunk(fc.fb[fc.slot], frag_idx,
                                          SubSeq(data, offset + 4, offset + 3 + text_len))
                     fb1 == [fc.fb EXCEPT ![fc.slot] = ac.entry]
                 IN  IF ac.ok /\ frag_is_complete(ac.entry)
                     THEN LET reassembled == frag_reassemble(ac.entry)
                              total_len == IF Len(reassembled) > CYXCHAT_MAX_TEXT_LEN
                                           THEN CYXCHAT_MAX_TEXT_LEN ELSE Len(reassembled)
                              queued_data == LE16(total_len) \o SubSeq(reassembled, 1, total_len)
                              qp == queue_push(recv_queue, recv_head, recv_tail,
                                               from, h.type, queued_data)
                          IN  /\ recv_queue' = qp.q
                              /\ recv_head' = qp.head
                              /\ recv_tail' = qp.tail
                              /\ frag_buffer' = [fb1 EXCEPT ![fc.slot].valid = FALSE]
                              /\ delivered' = [delivered EXCEPT ![m] = @ + 1]
                              /\ ev' = [Ev("deliver", from) EXCEPT
                                          !.chat.msg = m, !.chat.pushed = TRUE,
                                          !.chat.reassembled = TRUE, !.chat.data = queued_data]
                     ELSE /\ frag_buffer' = fb1
                          /\ ev' = [Ev("deliver", from) EXCEPT !.chat.msg = m]
                          /\ UNCHANGED <<recv_queue, recv_head, recv_tail, delivered>>
       ELSE \* non-fragmented message
            LET wire_text_len == data[offset + 1]
                fits == h.type = CYXCHAT_MSG_TEXT /\ len > offset
                        /\ offset + 1 + wire_text_len <= len
                converted == <<wire_text_len, 0>> \o SubSeq(data, offset + 2, offset + 1 + wire_text_len)
                qp == IF h.type = CYXCHAT_MSG_TEXT /\ len > offset
                      THEN IF fits
                           THEN queue_push(recv_queue, recv_head, recv_tail, from, h.type, converted)
                           ELSE [q |-> recv_queue, head |-> recv_head, tail |-> recv_tail]
                      ELSE queue_push(recv_queue, recv_head, recv_tail, from, h.type,
                                      SubSeq(data, offset + 1, len))
            IN  /\ recv_queue' = qp.q
                /\ recv_head' = qp.head
                /\ recv_tail' = qp.tail
                /\ delivered' = IF qp.head # recv_head THEN [delivered EXCEPT ![m] = @ + 1]
                                ELSE delivered
                /\ ev' = [Ev("deliver", from) EXCEPT
                            !.chat.msg = m, !.chat.pushed = (qp.head # recv_head),
                            !.chat.on_message = fits,
                            !.chat.data = IF fits THEN converted ELSE <<>>]
                /\ UNCHANGED frag_buffer

\* cyxchat_poll(now_ms) with now_ms = clock; its return value is the queue length
cyxchat_poll ==
    /\ frag_buffer' = frag_expire_old(frag_buffer, clock)
    /\ ev' = [Ev("chat_poll", "none") EXCEPT
                !.chat.count = IF recv_head >= recv_tail THEN recv_head - recv_tail
                               ELSE RECV_QUEUE_SIZE - recv_tail + recv_head]
    /\ UNCHANGED <<clock, ticks, recv_queue, recv_head, recv_tail, net, msgs_sent,
                   delivered, deliveries>>
    /\ UNCHANGED connVars
    /\ UNCHANGED <<dnsVars, fileVars, groupVars, appVars>>

\* cyxchat_recv_next: queue_pop into a buffer large enough for any message
cyxchat_recv_next ==
    /\ IF queue_is_empty(recv_head, recv_tail)
       THEN /\ ev' = [Ev("recv_next", "none") EXCEPT !.chat.result = "0"]
            /\ UNCHANGED <<recv_queue, recv_tail>>
       ELSE /\ ev' = [Ev("recv_next", recv_queue[recv_tail].from) EXCEPT
                        !.chat.result = "1", !.chat.data = recv_queue[recv_tail].data]
            /\ recv_queue' = [recv_queue EXCEPT ![recv_tail].valid = FALSE]
            /\ recv_tail' = (recv_tail + 1) % RECV_QUEUE_SIZE
    /\ UNCHANGED <<clock, ticks, frag_buffer, recv_head, net, msgs_sent, delivered, deliveries>>
    /\ UNCHANGED connVars
    /\ UNCHANGED <<dnsVars, fileVars, groupVars, appVars>>

SendTextStep == \E p \in NodeIds, len \in TextLens, is_reply \in BOOLEAN, n_ok \in 0..MaxFrames :
                    cyxchat_send_text(p, len, is_reply, n_ok)
DeliverStep == \E f \in net : deliveries < MaxDeliveries /\ on_onion_delivery(f.from, f.data)
ChatPollStep == cyxchat_poll
\* the k-th frame a peer sends in the receive queue specification: an
\* unfragmented TEXT whose one byte of text is its arrival number
QueueFrame(k) ==
    serialize_text_msg(MsgIdOf(1), CYXCHAT_FLAG_ENCRYPTED, <<(k % 255) + 1>>, <<>>)
QueueDeliverStep ==
    /\ deliveries < MaxQueueDeliveries
    /\ on_onion_delivery("n1", QueueFrame(deliveries + 1))
RecvNextStep == cyxchat_recv_next

(***************************************************************************)
(* DNS engine (dns.c)                                                      *)
(*                                                                         *)
(* Names are valid and normalised.  A signature is modelled by what it     *)
(* signs (name, pubkey, timestamp) and the key that made it; ZeroSig is    *)
(* the all-zero signature of a build without CYXWIZ_HAS_CRYPTO.  A wire    *)
(* message is the record of the fields its layout carries.  Monotonic time *)
(* (get_time_ms and the host's now_ms) is `clock`, Unix time               *)
(* (get_unix_time_ms) is `wall`.  The statistics counters and the          *)
(* stun_addr field of a record (not on the wire, and left uninitialised by *)
(* handle_register) are left out.                                          *)
(* serialize_register writes 206 bytes into the callers' 200-byte buffers: *)
(* the message goes out whole, and the process then either carries on or   *)
(* is aborted when the caller returns (dns_crashed).                       *)
(***************************************************************************)
ZeroSig == [name |-> "", pubkey |-> "none", timestamp |-> 0, key |-> "none"]

ZeroRecord == [name |-> "", node_id |-> "none", pubkey |-> "none", signature |-> ZeroSig,
               timestamp |-> 0, ttl |-> 0]

\* `over` is history: whether the record of the slot was stored over a valid
\* entry of its name
ZeroCacheEntry == [record |-> ZeroRecord, cached_at |-> 0, hops |-> 0, valid |-> FALSE,
                   over |-> FALSE]

ZeroLookup == [name |-> "", query_id |-> 0, start_time |-> 0, has_cb |-> FALSE, active |-> FALSE]

ZeroPendingRegister == [has_cb |-> FALSE, start_time |-> 0, active |-> FALSE]

CacheSlots == 0..(CYXCHAT_DNS_CACHE_SIZE - 1)
LookupSlots == 0..15

\* what an Ed25519 signature over name || pubkey || be64(timestamp) by `key` is
SigOf(name, pubkey, timestamp, key) ==
    [name |-> name, pubkey |-> pubkey, timestamp |-> timestamp, key |-> key]

\* verify_record_signature: the verifying key is the record's own pubkey field
verify_record_signature(crypto, record) ==
    IF crypto
    THEN record.signature = SigOf(record.name, record.pubkey, record.timestamp, record.pubkey)
    ELSE TRUE

\* sign_record with the context's signing key
sign_record(crypto, key, record) ==
    [record EXCEPT !.signature =
        IF crypto THEN SigOf(record.name, record.pubkey, record.timestamp, key) ELSE ZeroSig]

\* serialize_register: the fields of a DNS_REGISTER frame
serialize_register(record, hops) ==
    [type |-> CYXCHAT_MSG_DNS_REGISTER, hops |-> hops % 256, name |-> record.name,
     node_id |-> record.node_id, pubkey |-> record.pubkey, signature |-> record.signature,
     timestamp |-> record.timestamp, ttl |-> record.ttl]

\* deserialize_register into a local record
deserialize_register(msg) ==
    [name |-> msg.name, node_id |-> msg.node_id, pubkey |-> msg.pubkey,
     signature |-> msg.signature, timestamp |-> msg.timestamp, ttl |-> msg.ttl]

serialize_lookup(name, query_id) ==
    [type |-> CYXCHAT_MSG_DNS_LOOKUP, query_id |-> query_id, name |-> name]

\* serialize_response: no timestamp travels in a DNS_RESPONSE;
\* has_record = FALSE is the NULL record
serialize_response(query_id, has_record, record) ==
    IF has_record
    THEN [type |-> CYXCHAT_MSG_DNS_RESPONSE, query_id |-> query_id, found |-> 1,
          node_id |-> record.node_id, pubkey |-> record.pubkey,
          signature |-> record.signature, ttl |-> record.ttl, name |-> record.name]
    ELSE [type |-> CYXCHAT_MSG_DNS_RESPONSE, query_id |-> query_id, found |-> 0,
          node_id |-> "none", pubkey |-> "none", signature |-> ZeroSig, ttl |-> 0, name |-> ""]

\* cache[i]: a slot never written is zero, as calloc left it
CacheAt(cache, i) == IF i \in DOMAIN cache THEN cache[i] ELSE ZeroCacheEntry

\* cache[i] = entry
CachePut(cache, i, entry) ==
    [j \in DOMAIN cache \cup {i} |-> IF j = i THEN entry ELSE cache[j]]

\* find_cache_entry: the slots holding a valid record of that name
find_cache_entry(cache, name) ==
    {i \in DOMAIN cache : cache[i].valid /\ cache[i].record.name = name}

\* alloc_cache_entry: the slot handed out, the cache and cache_count afterwards
alloc_cache_entry(cache, count, now) ==
    LET empty == {i \in CacheSlots : ~CacheAt(cache, i).valid}
        oldest_time == MinOf({CacheAt(cache, i).cached_at : i \in CacheSlots})
        oldest == MinOf({i \in CacheSlots : CacheAt(cache, i).cached_at = oldest_time})
    IN  IF empty # {}
        THEN [slot |-> MinOf(empty), count |-> count + 1,
              cache |-> CachePut(cache, MinOf(empty),
                                 [CacheAt(cache, MinOf(empty)) EXCEPT !.valid = TRUE])]
        ELSE [slot |-> oldest, count |-> count,
              cache |-> CachePut(cache, oldest,
                                 [CacheAt(cache, oldest) EXCEPT !.record = ZeroRecord,
                                                                !.cached_at = now])]

is_cache_expired(entry, now) == Sub64(now, entry.cached_at) >= entry.record.ttl * 1000

find_pending_lookup(pl, name) == {i \in LookupSlots : pl[i].active /\ pl[i].name = name}

find_pending_lookup_by_id(pl, query_id) ==
    {i \in LookupSlots : pl[i].active /\ pl[i].query_id = query_id}

\* whether handle_register drops a record because of what the cache holds
have_same_or_newer(cache, record) ==
    /\ find_cache_entry(cache, record.name) # {}
    /\ cache[MinOf(find_cache_entry(cache, record.name))].record.timestamp >= record.timestamp

\* the cache and cache_count after a handler stores `record` for its name
store_record(cache, count, record, hops, now) ==
    LET existing == find_cache_entry(cache, record.name)
        a == IF existing # {}
             THEN [slot |-> MinOf(existing), count |-> count, cache |-> cache]
             ELSE alloc_cache_entry(cache, count, now)
    IN  [count |-> a.count,
         cache |-> CachePut(a.cache, a.slot,
                      [record |-> record, cached_at |-> now, hops |-> hops, valid |-> TRUE,
                       over |-> existing # {}])]

\* handle_register re-gossiping one hop too far
regossip_due_inclusive(hops) == hops <= CYXCHAT_DNS_GOSSIP_HOPS

\* whether handle_register re-gossips a record that arrived with `hops`
regossip_due(hops) == hops < CYXCHAT_DNS_GOSSIP_HOPS

(***************************************************************************)
(* DNS engine: handlers                                                    *)
(***************************************************************************)
NoMsg == [type |-> 0]

DnsInit ==
    /\ dns_cache = [i \in {} |-> ZeroCacheEntry]
    /\ cache_count = 0
    /\ pending_lookups = [i \in LookupSlots |-> ZeroLookup]
    /\ next_query_id = 1
    /\ dns_router \in BOOLEAN          \* cyxchat_dns_create with a router or with NULL
    /\ has_crypto \in BOOLEAN          \* built with CYXWIZ_HAS_CRYPTO or without
    /\ is_registered = FALSE
    /\ my_record = ZeroRecord
    /\ last_refresh = 0
    /\ pending_register = ZeroPendingRegister
    /\ wall = 1
    /\ dns_crashed = FALSE

\* the monotonic clock advances
DnsTick ==
    /\ ticks < MaxDnsTicks
    /\ \E d \in StepsDns : clock' = clock + d
    /\ ticks' = ticks + 1
    /\ ev' = Ev("tick", "none")
    /\ UNCHANGED <<connVars, chatVars, dnsVars, fileVars, groupVars, appVars>>

\* the monotonic clock advances by the refresh interval
GossipTick ==
    /\ ticks < MaxDnsTicks
    /\ \E d \in StepsGossip : clock' = clock + d
    /\ ticks' = ticks + 1
    /\ ev' = Ev("tick", "none")
    /\ UNCHANGED <<connVars, chatVars, dnsVars, fileVars, groupVars, appVars>>

\* the Unix clock advances
WallTick ==
    /\ wall < MaxWall
    /\ wall' = wall + 1
    /\ ev' = Ev("wall", "none")
    /\ UNCHANGED <<clock, ticks, connVars, chatVars, fileVars, groupVars, appVars, dns_cache, cache_count, pending_lookups,
                   next_query_id, dns_router, has_crypto, is_registered, my_record,
                   last_refresh, pending_register, dns_crashed>>

\* what a broadcast of `msg` hands to the router, if there is one
Broadcast(msg) == IF dns_router THEN <<[to |-> "broadcast", msg |-> msg]>> ELSE <<>>

\* cyxchat_dns_register(name, callback)
cyxchat_dns_register(name, has_cb, abort) ==
    LET rec == sign_record(has_crypto, LocalKey,
                  [ZeroRecord EXCEPT !.name = name, !.node_id = LocalId, !.pubkey = LocalKey,
                                     !.timestamp = wall, !.ttl = CYXCHAT_DNS_DEFAULT_TTL])
    IN  /\ ~dns_crashed
        /\ my_record' = rec
        /\ is_registered' = TRUE
        /\ last_refresh' = clock
        /\ pending_register' = [has_cb |-> has_cb, start_time |-> clock, active |-> TRUE]
        /\ ev' = [Ev("dns_register", "none") EXCEPT
                    !.dns.emitted = Broadcast(serialize_register(rec, 0)),
                    !.dns.cb = IF has_cb THEN <<name, "1">> ELSE <<>>,
                    !.dns.result = "OK"]
        /\ dns_crashed' = abort
        /\ UNCHANGED <<clock, ticks, connVars, chatVars, fileVars, groupVars, appVars, dns_cache, cache_count,
                       pending_lookups, next_query_id, dns_router, has_crypto, wall>>

\* what cyxchat_dns_refresh does to a registered context
RefreshRecord == sign_record(has_crypto, LocalKey, [my_record EXCEPT !.timestamp = wall])

\* cyxchat_dns_refresh()
cyxchat_dns_refresh(abort) ==
    /\ ~dns_crashed
    /\ IF ~is_registered
       THEN /\ ev' = [Ev("dns_refresh", "none") EXCEPT !.dns.result = "ERR_NOT_FOUND"]
            /\ UNCHANGED <<my_record, last_refresh, dns_crashed>>
       ELSE /\ my_record' = RefreshRecord
            /\ last_refresh' = clock
            /\ ev' = [Ev("dns_refresh", "none") EXCEPT
                        !.dns.emitted = Broadcast(serialize_register(RefreshRecord, 0)),
                        !.dns.result = "OK"]
            /\ dns_crashed' = abort
    /\ UNCHANGED <<clock, ticks, connVars, chatVars, fileVars, groupVars, appVars, dns_cache, cache_count, pending_lookups,
                   next_query_id, dns_router, has_crypto, is_registered, pending_register, wall>>

\* cyxchat_dns_unregister()
cyxchat_dns_unregister(abort) ==
    /\ ~dns_crashed
    /\ IF ~is_registered
       THEN /\ ev' = [Ev("dns_unregister", "none") EXCEPT !.dns.result = "ERR_NOT_FOUND"]
            /\ UNCHANGED <<my_record, is_registered, dns_crashed>>
       ELSE LET rec == sign_record(has_crypto, LocalKey,
                           [my_record EXCEPT !.ttl = 0, !.timestamp = wall])
            IN  /\ my_record' = ZeroRecord
                /\ is_registered' = FALSE
                /\ ev' = [Ev("dns_unregister", "none") EXCEPT
                            !.dns.emitted = Broadcast(serialize_register(rec, 0)),
                            !.dns.result = "OK"]
                /\ dns_crashed' = abort
    /\ UNCHANGED <<clock, ticks, connVars, chatVars, fileVars, groupVars, appVars, dns_cache, cache_count, pending_lookups,
                   next_query_id, dns_router, has_crypto, last_refresh, pending_register, wall>>

\* cyxchat_dns_lookup(name, callback); no name of the model is a crypto-name
cyxchat_dns_lookup(name, has_cb) ==
    LET hit == find_cache_entry(dns_cache, name)
        free == {i \in LookupSlots : ~pending_lookups[i].active}
    IN  /\ ~dns_crashed
        /\ IF hit # {} /\ ~is_cache_expired(dns_cache[MinOf(hit)], clock)
           THEN /\ ev' = [Ev("dns_lookup", "none") EXCEPT
                            !.dns.cb = IF has_cb THEN <<name, dns_cache[MinOf(hit)].record>>
                                       ELSE <<>>,
                            !.dns.result = "OK"]
                /\ UNCHANGED <<pending_lookups, next_query_id>>
           ELSE IF find_pending_lookup(pending_lookups, name) # {}
           THEN /\ ev' = [Ev("dns_lookup", "none") EXCEPT !.dns.result = "ERR_EXISTS"]
                /\ UNCHANGED <<pending_lookups, next_query_id>>
           ELSE IF free = {}
           THEN /\ ev' = [Ev("dns_lookup", "none") EXCEPT !.dns.result = "ERR_FULL"]
                /\ UNCHANGED <<pending_lookups, next_query_id>>
           ELSE /\ pending_lookups' = [pending_lookups EXCEPT ![MinOf(free)] =
                        [name |-> name, query_id |-> next_query_id, start_time |-> clock,
                         has_cb |-> has_cb, active |-> TRUE]]
                /\ next_query_id' = (next_query_id + 1) % 256
                /\ ev' = [Ev("dns_lookup", "none") EXCEPT
                            !.dns.emitted = Broadcast(serialize_lookup(name, next_query_id)),
                            !.dns.result = "OK"]
        /\ UNCHANGED <<clock, ticks, connVars, chatVars, fileVars, groupVars, appVars, dns_cache, cache_count, dns_router,
                       has_crypto, is_registered, my_record, last_refresh, pending_register,
                       wall, dns_crashed>>

\* cyxchat_dns_poll(now_ms) with now_ms = clock
cyxchat_dns_poll(abort) ==
    LET now == clock
        timed_out == {i \in LookupSlots : pending_lookups[i].active /\
                        Sub64(now, pending_lookups[i].start_time) >= CYXCHAT_DNS_LOOKUP_TIMEOUT}
        refresh == is_registered /\
                   Sub64(now, last_refresh) >= CYXCHAT_DNS_REFRESH_INTERVAL * 1000
        expired == {i \in DOMAIN dns_cache :
                        dns_cache[i].valid /\ is_cache_expired(dns_cache[i], now)}
    IN  /\ ~dns_crashed
        /\ pending_lookups' = [i \in LookupSlots |->
                IF i \in timed_out THEN [pending_lookups[i] EXCEPT !.active = FALSE]
                ELSE pending_lookups[i]]
        /\ my_record' = IF refresh THEN RefreshRecord ELSE my_record
        /\ last_refresh' = IF refresh THEN now ELSE last_refresh
        /\ dns_crashed' = (refresh /\ abort)
        /\ dns_cache' = [i \in DOMAIN dns_cache |->
                IF i \in expired THEN [dns_cache[i] EXCEPT !.valid = FALSE] ELSE dns_cache[i]]
        /\ cache_count' = IF cache_count > Cardinality(expired)
                          THEN cache_count - Cardinality(expired) ELSE 0
        /\ ev' = [Ev("dns_poll", "none") EXCEPT
                    !.dns.emitted = IF refresh THEN Broadcast(serialize_register(RefreshRecord, 0))
                                    ELSE <<>>,
                    !.dns.lookup_cb = {<<pending_lookups[i].name, "NULL">> :
                                        i \in {j \in timed_out : pending_lookups[j].has_cb}},
                    !.dns.result = "OK"]
        /\ UNCHANGED <<clock, ticks, connVars, chatVars, fileVars, groupVars, appVars, next_query_id, dns_router, has_crypto,
                       is_registered, pending_register, wall>>

\* handle_register(from, data); also the handler of DNS_ANNOUNCE and DNS_UPDATE
handle_register(msg, abort) ==
    LET record == deserialize_register(msg)
        hops == msg.hops
    IN  IF ~verify_record_signature(has_crypto, record)
        THEN /\ ev' = [Ev("dns_msg", "none") EXCEPT !.dns.rx = msg]
             /\ UNCHANGED <<dns_cache, cache_count, pending_lookups, dns_crashed>>
        ELSE IF have_same_or_newer(dns_cache, record)
        THEN /\ ev' = [Ev("dns_msg", "none") EXCEPT !.dns.rx = msg]
             /\ UNCHANGED <<dns_cache, cache_count, pending_lookups, dns_crashed>>
        ELSE LET st == store_record(dns_cache, cache_count, record, hops, clock) IN
             /\ dns_cache' = st.cache
             /\ cache_count' = st.count
             /\ ev' = [Ev("dns_msg", "none") EXCEPT
                         !.dns.rx = msg, !.dns.stored = TRUE,
                         !.dns.emitted = IF regossip_due(hops)
                                         THEN Broadcast(serialize_register(record, hops + 1))
                                         ELSE <<>>]
             /\ dns_crashed' = (regossip_due(hops) /\ abort)
             /\ UNCHANGED pending_lookups

\* handle_lookup(from, data)
handle_lookup(from, msg) ==
    LET hit == find_cache_entry(dns_cache, msg.name)
        cached == hit # {} /\ ~is_cache_expired(dns_cache[MinOf(hit)], clock)
        own == ~cached /\ is_registered /\ my_record.name = msg.name
        resp == IF cached THEN serialize_response(msg.query_id, TRUE, dns_cache[MinOf(hit)].record)
                ELSE IF own THEN serialize_response(msg.query_id, TRUE, my_record)
                ELSE serialize_response(msg.query_id, FALSE, ZeroRecord)
    IN  /\ ev' = [Ev("dns_msg", from) EXCEPT
                    !.dns.rx = msg,
                    !.dns.emitted = IF dns_router THEN <<[to |-> from, msg |-> resp]>> ELSE <<>>]
        /\ UNCHANGED <<dns_cache, cache_count, pending_lookups, dns_crashed>>

\* the record handle_response builds from a DNS_RESPONSE: its timestamp is the
\* receiver's Unix time
ResponseRecord(msg) ==
    [name |-> msg.name, node_id |-> msg.node_id, pubkey |-> msg.pubkey,
     signature |-> msg.signature, timestamp |-> wall, ttl |-> msg.ttl]

\* handle_response(from, data)
handle_response(msg) ==
    LET match == find_pending_lookup_by_id(pending_lookups, msg.query_id)
        record == ResponseRecord(msg)
        ok == msg.found # 0 /\ verify_record_signature(has_crypto, record)
        st == store_record(dns_cache, cache_count, record, 1, clock)
    IN  IF match = {}
        THEN /\ ev' = [Ev("dns_msg", "none") EXCEPT !.dns.rx = msg]
             /\ UNCHANGED <<dns_cache, cache_count, pending_lookups, dns_crashed>>
        ELSE /\ dns_cache' = IF ok THEN st.cache ELSE dns_cache
             /\ cache_count' = IF ok THEN st.count ELSE cache_count
             /\ pending_lookups' = [pending_lookups EXCEPT ![MinOf(match)].active = FALSE]
             /\ ev' = [Ev("dns_msg", "none") EXCEPT
                         !.dns.rx = msg, !.dns.stored = ok, !.dns.matched = TRUE,
                         !.dns.lookup_cb = IF pending_lookups[MinOf(match)].has_cb
                                           THEN {<<pending_lookups[MinOf(match)].name,
                                                   IF ok THEN "record" ELSE "NULL">>}
                                           ELSE {}]
             /\ UNCHANGED dns_crashed

\* cyxchat_dns_handle_message(from, data): dispatch on the type byte
cyxchat_dns_handle_message(from, msg, abort) ==
    /\ ~dns_crashed
    /\ IF msg.type \in {CYXCHAT_MSG_DNS_REGISTER, CYXCHAT_MSG_DNS_ANNOUNCE, CYXCHAT_MSG_DNS_UPDATE}
       THEN handle_register(msg, abort)
       ELSE IF msg.type = CYXCHAT_MSG_DNS_LOOKUP THEN handle_lookup(from, msg)
       ELSE IF msg.type = CYXCHAT_MSG_DNS_RESPONSE THEN handle_response(msg)
       ELSE /\ ev' = [Ev("dns_msg", "none") EXCEPT !.dns.rx = msg, !.dns.result = "ERR_INVALID"]
            /\ UNCHANGED <<dns_cache, cache_count, pending_lookups, dns_crashed>>
    /\ UNCHANGED <<clock, ticks, connVars, chatVars, fileVars, groupVars, appVars, next_query_id, dns_router, has_crypto,
                   is_registered, my_record, last_refresh, pending_register, wall>>

\* the signatures a remote registrant's frames can carry: its own over either
\* timestamp, or none
RemoteSigs(name) == {SigOf(name, RemoteKey, t, RemoteKey) : t \in Timestamps} \cup {ZeroSig}

\* the frames the network can hand up: registrations signed by the registrant
\* or not signed at all
RegisterMsgs == UNION {
    {[type |-> ty, hops |-> h, name |-> nt[1], node_id |-> "n1", pubkey |-> RemoteKey,
      signature |-> s, timestamp |-> nt[2], ttl |-> CYXCHAT_DNS_DEFAULT_TTL] :
        ty \in RegisterTypes, h \in HopsIn,
        s \in {SigOf(nt[1], RemoteKey, nt[2], RemoteKey), ZeroSig}} :
    nt \in Names \X Timestamps}

\* tombstones: registrations with ttl = 0, signed by the registrant
TombstoneMsgs ==
    {[type |-> ty, hops |-> h, name |-> n, node_id |-> "n1", pubkey |-> RemoteKey,
      signature |-> SigOf(n, RemoteKey, t, RemoteKey), timestamp |-> t, ttl |-> 0] :
        ty \in RegisterTypes, h \in HopsIn, n \in Names, t \in Timestamps}

LookupMsgs == {serialize_lookup(n, q) : n \in Names, q \in RemoteQueryIds}

\* responses: not found, or found with a record signed over either timestamp
\* or not signed
ResponseMsgs ==
    {serialize_response(q, FALSE, ZeroRecord) : q \in 1..MaxLookups} \cup
    UNION {
        {[type |-> CYXCHAT_MSG_DNS_RESPONSE, query_id |-> q, found |-> 1, node_id |-> "n1",
          pubkey |-> RemoteKey, signature |-> s, ttl |-> CYXCHAT_DNS_DEFAULT_TTL,
          name |-> n] :
            q \in 1..MaxLookups, s \in RemoteSigs(n)} :
        n \in Names}

DnsRegisterStep == \E n \in Names, abort \in BOOLEAN : cyxchat_dns_register(n, TRUE, abort)
DnsRefreshStep == \E abort \in BOOLEAN : cyxchat_dns_refresh(abort)
DnsUnregisterStep == \E abort \in BOOLEAN : cyxchat_dns_unregister(abort)
DnsLookupStep == \E n \in Names : next_query_id <= MaxLookups /\ cyxchat_dns_lookup(n, TRUE)
DnsPollStep == \E abort \in BOOLEAN : cyxchat_dns_poll(abort)
DnsRegisterMsgStep == \E msg \in RegisterMsgs, abort \in BOOLEAN :
                          cyxchat_dns_handle_message("n1", msg, abort)
DnsTombstoneMsgStep == \E msg \in TombstoneMsgs, abort \in BOOLEAN :
                           cyxchat_dns_handle_message("n1", msg, abort)
\* the host looks up the second name
OtherLookupStep == cyxchat_dns_lookup(OtherName, TRUE)
\* a peer answers a pending lookup of the second name: not found
NotFoundResponseStep ==
    \E i \in find_pending_lookup(pending_lookups, OtherName) :
        cyxchat_dns_handle_message(
            "n1", serialize_response(pending_lookups[i].query_id, FALSE, ZeroRecord), FALSE)
\* a peer answers a pending lookup with a signed record of the second name
OtherResponseStep ==
    \E i \in {j \in LookupSlots : pending_lookups[j].active}, t \in Timestamps :
        cyxchat_dns_handle_message(
            "n1",
            serialize_response(pending_lookups[i].query_id, TRUE,
                [name |-> OtherName, node_id |-> "n1", pubkey |-> RemoteKey,
                 signature |-> SigOf(OtherName, RemoteKey, t, RemoteKey),
                 timestamp |-> t, ttl |-> CYXCHAT_DNS_DEFAULT_TTL]),
            FALSE)
DnsLookupMsgStep == \E msg \in LookupMsgs : cyxchat_dns_handle_message("n1", msg, FALSE)
DnsResponseMsgStep == \E msg \in ResponseMsgs : cyxchat_dns_handle_message("n1", msg, FALSE)

(***************************************************************************)
(* File transfer engine (file.c)                                           *)
(*                                                                         *)
(* A transfer slot keeps the fields of file_transfer_slot_t that the       *)
(* handlers read: the data buffer is `data` (allocated or not), its        *)
(* capacity, and `written`, the chunk indices whose bytes were copied in.  *)
(* The table is kept over the active slots; free_transfer zeroes a slot.   *)
(* A frame is the record of the fields its layout carries; a frame handed  *)
(* to cyxchat_send_raw is recorded with its destination and the time.      *)
(* cyxchat_timestamp_ms() and the host's now_ms both read `clock`.  The    *)
(* host has registered all four callbacks.  File ids and hashes are opaque *)
(* values; cyxwiz_crypto_hash of a file is HashOf of its length.           *)
(* send_next_chunk copies up to 1024 bytes behind the 13 header bytes of a *)
(* 150-byte stack buffer: when the chunk does not fit, the build either    *)
(* aborts in the checked memcpy before anything is sent, or sends the      *)
(* frame and aborts when the function returns, or carries on.              *)
(* `accepted`, `accept_start` and `sent_after` of a slot are history: the  *)
(* start chunk of the last FILE_ACCEPT and the chunk indices sent since.   *)
(***************************************************************************)
CYXCHAT_MAX_TRANSFERS == 16
CYXCHAT_CHUNK_SIZE == 1024
CYXCHAT_MSG_FILE_META == 20
CYXCHAT_MSG_FILE_CHUNK == 21
CYXCHAT_MSG_FILE_ACK == 22
CYXCHAT_MSG_FILE_OFFER == 64
CYXCHAT_MSG_FILE_ACCEPT == 65
CYXCHAT_MSG_FILE_REJECT == 66
CYXCHAT_MSG_FILE_COMPLETE == 67
CYXCHAT_MSG_FILE_CANCEL == 68
CYXCHAT_MSG_FILE_DHT_READY == 69
\* type(1) + file_id(8) + chunk_idx(2) + chunk_len(2)
ChunkHeaderLen == 13
\* sizeof(chunk_buf) in send_next_chunk and in cyxchat_file_send
NextChunkBuf == 150
SendChunkBuf == 250
\* pacing between chunks in cyxchat_file_poll, sleep between chunks in
\* cyxchat_file_send, and the stall timeout
ChunkIntervalMs == 500
ChunkDelayMs == 100
StallTimeoutMs == 60000

TransferSlots == 0..(CYXCHAT_MAX_TRANSFERS - 1)

FileStates == {"Pending", "Sending", "Receiving", "Paused", "Completed", "Failed",
               "Cancelled"}

\* what the build can make of a stack overrun in send_next_chunk
Overruns == {"carry_on", "abort_before_send", "abort_after_send"}

\* a slot as memset(0) leaves it (state 0 is Pending)
ZeroSlot ==
    [active |-> FALSE, file_id |-> "none", size |-> 0, chunk_count |-> 0,
     file_hash |-> "none", peer |-> "none", state |-> "Pending", chunks_done |-> 0,
     started_at |-> 0, updated_at |-> 0, is_outgoing |-> FALSE,
     data |-> FALSE, data_capacity |-> 0, written |-> {},
     chunk_bitmap |-> [alloc |-> FALSE, bits |-> {}],
     last_chunk_sent_ms |-> 0,
     accepted |-> FALSE, accept_start |-> 0, sent_after |-> <<>>]

SlotPut(ts, i, s) == [j \in DOMAIN ts \cup {i} |-> IF j = i THEN s ELSE ts[j]]

HashOf(len) == <<"hash", len>>

\* (data_len + CYXCHAT_CHUNK_SIZE - 1) / CYXCHAT_CHUNK_SIZE
ChunkCountOf(len) == (len + CYXCHAT_CHUNK_SIZE - 1) \div CYXCHAT_CHUNK_SIZE

\* length of chunk idx of a file of `size` bytes
ChunkLenAt(size, idx) ==
    LET remaining == size - idx * CYXCHAT_CHUNK_SIZE
    IN  IF remaining > CYXCHAT_CHUNK_SIZE THEN CYXCHAT_CHUNK_SIZE ELSE remaining

\* find_transfer: the slots holding the id (the first one is returned)
find_transfer(ts, file_id) == {i \in DOMAIN ts : ts[i].active /\ ts[i].file_id = file_id}

\* alloc_transfer: the first inactive slot, if any
alloc_transfer(ts) == TransferSlots \ {i \in DOMAIN ts : ts[i].active}

\* free_transfer: the slot is zeroed
free_transfer(ts, i) == [j \in DOMAIN ts \ {i} |-> ts[j]]

alloc_chunk_bitmap(slot) == [slot EXCEPT !.chunk_bitmap = [alloc |-> TRUE, bits |-> {}]]

set_chunk_received(slot, idx) ==
    IF slot.chunk_bitmap.alloc /\ idx < slot.chunk_count
    THEN [slot EXCEPT !.chunk_bitmap.bits = @ \cup {idx}]
    ELSE slot

is_chunk_received(slot, idx) ==
    slot.chunk_bitmap.alloc /\ idx < slot.chunk_count /\ idx \in slot.chunk_bitmap.bits

count_received_chunks(slot) ==
    IF ~slot.chunk_bitmap.alloc THEN 0
    ELSE Cardinality({i \in 0..(slot.chunk_count - 1) : is_chunk_received(slot, i)})

ChunkFrame(slot, idx, len, now) ==
    [type |-> CYXCHAT_MSG_FILE_CHUNK, file_id |-> slot.file_id, chunk_idx |-> idx,
     chunk_len |-> len, to |-> slot.peer, at |-> now]

FileCb(name, file_id, arg) == [cb |-> name, file_id |-> file_id, arg |-> arg]

\* send_next_chunk: the slot afterwards, what went to cyxchat_send_raw, and
\* whether the process was aborted
send_next_chunk(slot, now, overrun) ==
    IF ~slot.data \/ slot.chunks_done >= slot.chunk_count
    THEN [slot |-> slot, emitted |-> <<>>, crashed |-> FALSE]
    ELSE LET chunk_idx == slot.chunks_done
             chunk_len == ChunkLenAt(slot.size, chunk_idx)
             overflows == ChunkHeaderLen + chunk_len > NextChunkBuf
             sent == [slot EXCEPT !.chunks_done = @ + 1,
                                  !.updated_at = now,
                                  !.last_chunk_sent_ms = now,
                                  !.sent_after = IF slot.accepted THEN Append(@, chunk_idx)
                                                 ELSE @]
         IN  IF overflows /\ overrun = "abort_before_send"
             THEN [slot |-> slot, emitted |-> <<>>, crashed |-> TRUE]
             ELSE [slot |-> sent,
                   emitted |-> <<ChunkFrame(slot, chunk_idx, chunk_len, now)>>,
                   crashed |-> overflows /\ overrun = "abort_after_send"]

\* one round of the loop of cyxchat_file_poll, for the slot s0
poll_slot(s0, now, overrun) ==
    LET idle == [slot |-> s0, emitted |-> <<>>, crashed |-> FALSE]
        delay_ms == IF s0.chunks_done = 0 THEN 0 ELSE ChunkIntervalMs
        sent == IF ~(s0.is_outgoing /\ s0.state = "Sending") THEN idle
                ELSE IF s0.chunks_done < s0.chunk_count
                     THEN IF Sub64(now, s0.last_chunk_sent_ms) >= delay_ms
                          THEN send_next_chunk(s0, now, overrun)
                          ELSE idle
                     ELSE [idle EXCEPT !.slot.state = "Completed"]
        completed == s0.is_outgoing /\ s0.state = "Sending"
                     /\ s0.chunks_done >= s0.chunk_count
        s1 == sent.slot
        stalled == /\ ~sent.crashed
                   /\ s1.state \in {"Sending", "Receiving"}
                   /\ Sub64(now, s1.updated_at) > StallTimeoutMs
    IN  [slot |-> IF stalled THEN [s1 EXCEPT !.state = "Failed"] ELSE s1,
         emitted |-> sent.emitted,
         cb |-> (IF completed THEN <<FileCb("on_complete", s0.file_id, "none")>> ELSE <<>>)
                \o (IF stalled
                    THEN <<FileCb("on_error", s0.file_id, "CYXCHAT_ERR_TIMEOUT")>>
                    ELSE <<>>),
         crashed |-> sent.crashed]

RECURSIVE poll_slots(_, _, _, _)
poll_slots(todo, st, now, overrun) ==
    IF todo = {} \/ st.crashed THEN st
    ELSE LET i == MinOf(todo)
             r == poll_slot(st.transfers[i], now, overrun)
         IN  poll_slots(todo \ {i},
                        [transfers |-> [st.transfers EXCEPT ![i] = r.slot],
                         emitted |-> st.emitted \o r.emitted,
                         cb |-> st.cb \o r.cb,
                         crashed |-> r.crashed],
                        now, overrun)

FileInit ==
    /\ transfers = [i \in {} |-> ZeroSlot]
    /\ transfer_count = 0
    /\ file_crashed = FALSE

FileEv(op, file_id, result, emitted, cb) ==
    [Ev(op, "none") EXCEPT !.file.id = file_id, !.file.result = result,
                           !.file.emitted = emitted, !.file.cb = cb]

\* the monotonic clock advances
FileTick ==
    /\ ticks < MaxFileTicks
    /\ \E d \in StepsFile : clock' = clock + d
    /\ ticks' = ticks + 1
    /\ ev' = Ev("tick", "none")
    /\ UNCHANGED <<connVars, chatVars, dnsVars, fileVars, groupVars, appVars>>

\* cyxchat_file_poll(now_ms)
cyxchat_file_poll(overrun) ==
    LET r == poll_slots(DOMAIN transfers,
                        [transfers |-> transfers, emitted |-> <<>>, cb |-> <<>>,
                         crashed |-> FALSE],
                        clock, overrun)
    IN  /\ ~file_crashed
        /\ transfers' = r.transfers
        /\ file_crashed' = r.crashed
        /\ ev' = FileEv("file_poll", "none", "OK", r.emitted, r.cb)
        /\ UNCHANGED <<clock, ticks, connVars, chatVars, dnsVars, transfer_count, groupVars, appVars>>

\* the FILE_CHUNK frames cyxchat_file_send hands to cyxchat_send_raw, chunk i
\* at start + i * 100 ms
RECURSIVE SendChunks(_, _, _, _)
SendChunks(slot, i, data_len, start) ==
    IF i >= slot.chunk_count THEN <<>>
    ELSE LET whole == ChunkLenAt(data_len, i)
             chunk_len == IF ChunkHeaderLen + whole > SendChunkBuf
                          THEN SendChunkBuf - ChunkHeaderLen ELSE whole
         IN  <<ChunkFrame(slot, i, chunk_len, start + i * ChunkDelayMs)>>
             \o SendChunks(slot, i + 1, data_len, start)

\* cyxchat_file_send(to, filename, mime_type, data, data_len, file_id_out)
cyxchat_file_send(to, data_len, file_id, mem_ok, send_ok) ==
    LET free == alloc_transfer(transfers)
        i == MinOf(free)
        chunk_count == ChunkCountOf(data_len)
        slot == [ZeroSlot EXCEPT !.active = TRUE, !.file_id = file_id, !.size = data_len,
                                 !.chunk_count = chunk_count,
                                 !.file_hash = HashOf(data_len), !.peer = to,
                                 !.state = "Sending", !.is_outgoing = TRUE,
                                 !.started_at = clock, !.updated_at = clock,
                                 !.data = TRUE, !.data_capacity = data_len]
        meta == [type |-> CYXCHAT_MSG_FILE_META, file_id |-> file_id, size |-> data_len,
                 chunk_count |-> chunk_count, file_hash |-> HashOf(data_len),
                 to |-> to, at |-> clock]
        fits == ChunkHeaderLen + data_len <= SendChunkBuf
        last == clock + (chunk_count - 1) * ChunkDelayMs
    IN  /\ ~file_crashed
        /\ find_transfer(transfers, file_id) = {}
        \* the call sleeps between the chunks: it counts as a clock advance
        /\ chunk_count > 1 => ticks < MaxFileTicks
        /\ IF free = {}
           THEN /\ ev' = FileEv("file_send", file_id, "CYXCHAT_ERR_FULL", <<>>, <<>>)
                /\ UNCHANGED <<clock, transfers, transfer_count>>
           ELSE IF ~mem_ok
           THEN /\ ev' = FileEv("file_send", file_id, "CYXCHAT_ERR_MEMORY", <<>>, <<>>)
                /\ UNCHANGED <<clock, transfers, transfer_count>>
           ELSE IF ~send_ok
           THEN /\ ev' = FileEv("file_send", file_id, "send_err", <<>>, <<>>)
                /\ UNCHANGED <<clock, transfers, transfer_count>>
           ELSE IF chunk_count = 1
           THEN /\ transfers' = SlotPut(transfers, i,
                                   [slot EXCEPT !.chunks_done = IF fits THEN 1 ELSE 0])
                /\ transfer_count' = transfer_count + 1
                /\ ev' = FileEv("file_send", file_id, "OK",
                                <<meta>> \o (IF fits
                                             THEN <<ChunkFrame(slot, 0, data_len, clock)>>
                                             ELSE <<>>),
                                <<>>)
                /\ UNCHANGED clock
           ELSE /\ transfers' = SlotPut(transfers, i,
                                   [slot EXCEPT !.chunks_done = chunk_count,
                                                !.updated_at = last])
                /\ transfer_count' = transfer_count + 1
                /\ ev' = FileEv("file_send", file_id, "OK",
                                <<meta>> \o SendChunks(slot, 0, data_len, clock), <<>>)
                /\ clock' = last
        /\ ticks' = IF clock' = clock THEN ticks ELSE ticks + 1
        /\ UNCHANGED <<connVars, chatVars, dnsVars, file_crashed, groupVars, appVars>>

\* cyxchat_file_accept(file_id)
cyxchat_file_accept(file_id, mem_ok) ==
    LET found == find_transfer(transfers, file_id)
        i == MinOf(found)
        slot == transfers[i]
    IN  /\ ~file_crashed
        /\ IF found = {}
           THEN /\ ev' = FileEv("file_accept", file_id, "CYXCHAT_ERR_NOT_FOUND", <<>>, <<>>)
                /\ UNCHANGED transfers
           ELSE IF slot.is_outgoing \/ slot.state # "Pending"
           THEN /\ ev' = FileEv("file_accept", file_id, "CYXCHAT_ERR_INVALID", <<>>, <<>>)
                /\ UNCHANGED transfers
           ELSE IF ~mem_ok
           THEN /\ ev' = FileEv("file_accept", file_id, "CYXCHAT_ERR_MEMORY", <<>>, <<>>)
                /\ UNCHANGED transfers
           ELSE /\ transfers' = [transfers EXCEPT ![i] =
                                   [slot EXCEPT !.data = TRUE, !.data_capacity = slot.size,
                                                !.written = {},
                                                !.state = "Receiving",
                                                !.updated_at = clock]]
                /\ ev' = FileEv("file_accept", file_id, "OK", <<>>, <<>>)
        /\ UNCHANGED <<clock, ticks, connVars, chatVars, dnsVars, transfer_count,
                       file_crashed, groupVars, appVars>>

\* cyxchat_file_reject and cyxchat_file_cancel: the slot of the file is freed
\* (cancel sets its state to Cancelled first)
file_drop(file_id) ==
    LET found == find_transfer(transfers, file_id)
    IN  IF found = {}
        THEN [transfers |-> transfers, transfer_count |-> transfer_count,
              result |-> "CYXCHAT_ERR_NOT_FOUND"]
        ELSE [transfers |-> free_transfer(transfers, MinOf(found)),
              transfer_count |-> transfer_count - 1, result |-> "OK"]

\* cyxchat_file_reject(file_id)
cyxchat_file_reject(file_id) ==
    /\ ~file_crashed
    /\ transfers' = file_drop(file_id).transfers
    /\ transfer_count' = file_drop(file_id).transfer_count
    /\ ev' = FileEv("file_reject", file_id, file_drop(file_id).result, <<>>, <<>>)
    /\ UNCHANGED <<clock, ticks, connVars, chatVars, dnsVars, file_crashed, groupVars, appVars>>

\* cyxchat_file_cancel(file_id)
cyxchat_file_cancel(file_id) ==
    /\ ~file_crashed
    /\ transfers' = file_drop(file_id).transfers
    /\ transfer_count' = file_drop(file_id).transfer_count
    /\ ev' = FileEv("file_cancel", file_id, file_drop(file_id).result, <<>>, <<>>)
    /\ UNCHANGED <<clock, ticks, connVars, chatVars, dnsVars, file_crashed, groupVars, appVars>>

\* cyxchat_file_pause(file_id)
cyxchat_file_pause(file_id) ==
    LET found == find_transfer(transfers, file_id)
        i == MinOf(found)
    IN  /\ ~file_crashed
        /\ IF found = {}
           THEN /\ ev' = FileEv("file_pause", file_id, "CYXCHAT_ERR_NOT_FOUND", <<>>, <<>>)
                /\ UNCHANGED transfers
           ELSE /\ transfers' = IF transfers[i].state \in {"Sending", "Receiving"}
                                THEN [transfers EXCEPT ![i].state = "Paused"]
                                ELSE transfers
                /\ ev' = FileEv("file_pause", file_id, "OK", <<>>, <<>>)
        /\ UNCHANGED <<clock, ticks, connVars, chatVars, dnsVars, transfer_count,
                       file_crashed, groupVars, appVars>>

\* cyxchat_file_resume(file_id)
cyxchat_file_resume(file_id) ==
    LET found == find_transfer(transfers, file_id)
        i == MinOf(found)
    IN  /\ ~file_crashed
        /\ IF found = {}
           THEN /\ ev' = FileEv("file_resume", file_id, "CYXCHAT_ERR_NOT_FOUND", <<>>, <<>>)
                /\ UNCHANGED transfers
           ELSE /\ transfers' =
                     IF transfers[i].state = "Paused"
                     THEN [transfers EXCEPT
                             ![i].state = IF transfers[i].is_outgoing THEN "Sending"
                                          ELSE "Receiving",
                             ![i].updated_at = clock]
                     ELSE transfers
                /\ ev' = FileEv("file_resume", file_id, "OK", <<>>, <<>>)
        /\ UNCHANGED <<clock, ticks, connVars, chatVars, dnsVars, transfer_count,
                       file_crashed, groupVars, appVars>>

\* what a message handler leaves behind: the table, the count, the callbacks
\* and the return value
FileOut(ts, count, cb, result) ==
    [transfers |-> ts, transfer_count |-> count, cb |-> cb, result |-> result]

FileErr(result) == FileOut(transfers, transfer_count, <<>>, result)

\* the slot of an incoming transfer as handle_file_meta and handle_file_offer
\* fill it in
IncomingSlot(from, msg) ==
    [ZeroSlot EXCEPT !.active = TRUE, !.file_id = msg.file_id, !.size = msg.size,
                     !.chunk_count = msg.chunk_count, !.file_hash = msg.file_hash,
                     !.peer = from, !.state = "Pending", !.is_outgoing = FALSE,
                     !.started_at = clock, !.updated_at = clock, !.chunks_done = 0]

handle_file_meta(from, msg, mem_ok) ==
    LET free == alloc_transfer(transfers)
        slot == IncomingSlot(from, msg)
    IN  IF find_transfer(transfers, msg.file_id) # {} THEN FileErr("CYXCHAT_ERR_EXISTS")
        ELSE IF free = {} THEN FileErr("CYXCHAT_ERR_FULL")
        ELSE FileOut(SlotPut(transfers, MinOf(free),
                             IF mem_ok
                             THEN [slot EXCEPT !.data = TRUE, !.data_capacity = msg.size,
                                               !.state = "Receiving"]
                             ELSE slot),
                     transfer_count + 1,
                     <<FileCb("on_request", msg.file_id, from)>>, "OK")

handle_file_chunk(from, msg, mem_ok) ==
    LET found == find_transfer(transfers, msg.file_id)
        i == MinOf(found)
        s0 == transfers[i]
        \* a pending transfer gets its buffer and starts receiving
        s1 == IF s0.state = "Pending"
              THEN [s0 EXCEPT !.data = TRUE,
                              !.data_capacity = IF s0.data THEN @ ELSE s0.size,
                              !.state = "Receiving"]
              ELSE s0
        data_offset == msg.chunk_idx * CYXCHAT_CHUNK_SIZE
        s2 == [s1 EXCEPT !.written = @ \cup {msg.chunk_idx},
                         !.chunks_done = @ + 1,
                         !.updated_at = clock]
        complete == s2.chunks_done >= s2.chunk_count
    IN  IF found = {} THEN FileErr("CYXCHAT_ERR_NOT_FOUND")
        ELSE IF s0.is_outgoing THEN FileErr("CYXCHAT_ERR_INVALID")
        ELSE IF s0.state \notin {"Receiving", "Pending"} THEN FileErr("CYXCHAT_ERR_INVALID")
        ELSE IF s0.state = "Pending" /\ ~s0.data /\ ~mem_ok
             THEN FileErr("CYXCHAT_ERR_MEMORY")
        ELSE IF data_offset + msg.chunk_len <= s1.data_capacity
             THEN FileOut([transfers EXCEPT ![i] =
                             IF complete THEN [s2 EXCEPT !.state = "Completed"] ELSE s2],
                          transfer_count,
                          <<FileCb("on_progress", msg.file_id, s2.chunks_done)>>
                          \o (IF complete
                              THEN <<FileCb("on_complete", msg.file_id, "none")>>
                              ELSE <<>>),
                          "OK")
             ELSE FileOut([transfers EXCEPT ![i] = s1], transfer_count, <<>>, "OK")

handle_file_offer(from, msg, mem_ok) ==
    LET free == alloc_transfer(transfers)
    IN  IF find_transfer(transfers, msg.file_id) # {} THEN FileErr("CYXCHAT_ERR_EXISTS")
        ELSE IF free = {} THEN FileErr("CYXCHAT_ERR_FULL")
        ELSE IF ~mem_ok THEN FileErr("CYXCHAT_ERR_MEMORY")
        ELSE FileOut(SlotPut(transfers, MinOf(free),
                             alloc_chunk_bitmap(IncomingSlot(from, msg))),
                     transfer_count + 1,
                     <<FileCb("on_request", msg.file_id, from)>>, "OK")

handle_file_accept(from, msg) ==
    LET found == find_transfer(transfers, msg.file_id)
        i == MinOf(found)
    IN  IF found = {} THEN FileErr("CYXCHAT_ERR_NOT_FOUND")
        ELSE IF ~transfers[i].is_outgoing THEN FileErr("CYXCHAT_ERR_INVALID")
        ELSE IF from # transfers[i].peer THEN FileErr("CYXCHAT_ERR_INVALID")
        ELSE FileOut([transfers EXCEPT ![i].chunks_done = msg.start_chunk,
                                       ![i].state = "Sending",
                                       ![i].updated_at = clock,
                                       ![i].accepted = TRUE,
                                       ![i].accept_start = msg.start_chunk,
                                       ![i].sent_after = <<>>],
                     transfer_count, <<>>, "OK")

\* handle_file_reject and handle_file_cancel: on_error, then the slot is freed
\* (a rejection is heeded for an outgoing transfer only)
handle_file_drop(from, msg, outgoing_only) ==
    LET found == find_transfer(transfers, msg.file_id)
        i == MinOf(found)
    IN  IF found = {} THEN FileErr("CYXCHAT_ERR_NOT_FOUND")
        ELSE IF outgoing_only /\ ~transfers[i].is_outgoing THEN FileErr("CYXCHAT_ERR_INVALID")
        ELSE IF from # transfers[i].peer THEN FileErr("CYXCHAT_ERR_INVALID")
        ELSE FileOut(free_transfer(transfers, i), transfer_count - 1,
                     <<FileCb("on_error", msg.file_id, "CYXCHAT_ERR_TRANSFER")>>, "OK")

handle_file_reject(from, msg) == handle_file_drop(from, msg, TRUE)

handle_file_cancel(from, msg) == handle_file_drop(from, msg, FALSE)

\* the state handle_file_complete leaves an outgoing transfer in
complete_state(slot, msg) == IF msg.status = 0 THEN "Completed" ELSE "Failed"

handle_file_complete(from, msg) ==
    LET found == find_transfer(transfers, msg.file_id)
        i == MinOf(found)
        state == complete_state(transfers[i], msg)
    IN  IF found = {} THEN FileErr("CYXCHAT_ERR_NOT_FOUND")
        ELSE IF ~transfers[i].is_outgoing THEN FileErr("CYXCHAT_ERR_INVALID")
        ELSE IF from # transfers[i].peer THEN FileErr("CYXCHAT_ERR_INVALID")
        ELSE FileOut([transfers EXCEPT ![i].state = state], transfer_count,
                     IF state = "Completed"
                     THEN <<FileCb("on_complete", msg.file_id, "none")>>
                     ELSE <<FileCb("on_error", msg.file_id, "CYXCHAT_ERR_TRANSFER")>>,
                     "OK")

handle_file_dht_ready(from, msg) ==
    LET found == find_transfer(transfers, msg.file_id)
        i == MinOf(found)
    IN  IF found = {} THEN FileErr("CYXCHAT_ERR_NOT_FOUND")
        ELSE IF transfers[i].is_outgoing THEN FileErr("CYXCHAT_ERR_INVALID")
        ELSE IF from # transfers[i].peer THEN FileErr("CYXCHAT_ERR_INVALID")
        ELSE FileOut([transfers EXCEPT ![i].updated_at = clock], transfer_count, <<>>, "OK")

\* cyxchat_file_handle_message(from, type, data, data_len)
cyxchat_file_handle_message(from, msg, mem_ok) ==
    LET out == CASE msg.type = CYXCHAT_MSG_FILE_META -> handle_file_meta(from, msg, mem_ok)
                 [] msg.type = CYXCHAT_MSG_FILE_CHUNK -> handle_file_chunk(from, msg, mem_ok)
                 [] msg.type = CYXCHAT_MSG_FILE_ACK -> FileErr("OK")
                 [] msg.type = CYXCHAT_MSG_FILE_OFFER -> handle_file_offer(from, msg, mem_ok)
                 [] msg.type = CYXCHAT_MSG_FILE_ACCEPT -> handle_file_accept(from, msg)
                 [] msg.type = CYXCHAT_MSG_FILE_REJECT -> handle_file_reject(from, msg)
                 [] msg.type = CYXCHAT_MSG_FILE_COMPLETE -> handle_file_complete(from, msg)
                 [] msg.type = CYXCHAT_MSG_FILE_CANCEL -> handle_file_cancel(from, msg)
                 [] msg.type = CYXCHAT_MSG_FILE_DHT_READY -> handle_file_dht_ready(from, msg)
                 [] OTHER -> FileErr("CYXCHAT_ERR_INVALID")
    IN  /\ ~file_crashed
        /\ transfers' = out.transfers
        /\ transfer_count' = out.transfer_count
        /\ ev' = [FileEv("file_msg", msg.file_id, out.result, <<>>, out.cb) EXCEPT
                    !.peer = from, !.file.rx = msg]
        /\ UNCHANGED <<clock, ticks, connVars, chatVars, dnsVars, file_crashed, groupVars, appVars>>

\* frames the network can hand up
MetaMsgs ==
    {[type |-> t, file_id |-> f, size |-> n, chunk_count |-> ChunkCountOf(n),
      file_hash |-> HashOf(n)] :
        t \in {CYXCHAT_MSG_FILE_META, CYXCHAT_MSG_FILE_OFFER}, f \in RemoteFileIds,
        n \in FileSizes}

ChunkMsgs ==
    UNION {{[type |-> CYXCHAT_MSG_FILE_CHUNK, file_id |-> f, chunk_idx |-> k,
             chunk_len |-> ChunkLenAt(n, k)] : k \in 0..(ChunkCountOf(n) - 1)} :
           f \in RemoteFileIds, n \in FileSizes}

AcceptMsgs ==
    {[type |-> CYXCHAT_MSG_FILE_ACCEPT, file_id |-> f, start_chunk |-> n] :
        f \in LocalFileIds, n \in StartChunks}

CompleteMsgs ==
    {[type |-> CYXCHAT_MSG_FILE_COMPLETE, file_id |-> f, status |-> s, verify_hash |-> h] :
        f \in LocalFileIds, s \in {0, 1}, h \in {HashOf(n) : n \in FileSizes}}

\* FILE_REJECT and FILE_CANCEL of a local file, and FILE_ACK, FILE_CANCEL
\* and FILE_DHT_READY of a remote one
SenderControlMsgs ==
    {[type |-> t, file_id |-> f] :
        t \in {CYXCHAT_MSG_FILE_REJECT, CYXCHAT_MSG_FILE_CANCEL}, f \in LocalFileIds}

ReceiverControlMsgs ==
    {[type |-> t, file_id |-> f] :
        t \in {CYXCHAT_MSG_FILE_ACK, CYXCHAT_MSG_FILE_CANCEL, CYXCHAT_MSG_FILE_DHT_READY},
        f \in RemoteFileIds}

AllFileIds == LocalFileIds \cup RemoteFileIds

FileSendStep ==
    \E n \in FileSizes, f \in LocalFileIds, send_ok \in BOOLEAN :
        cyxchat_file_send("n1", n, f, TRUE, send_ok)
FilePollStep == \E overrun \in Overruns : cyxchat_file_poll(overrun)
FileAcceptStep == \E f \in AllFileIds : cyxchat_file_accept(f, TRUE)
FileRejectStep == \E f \in AllFileIds : cyxchat_file_reject(f)
FileCancelStep == \E f \in AllFileIds : cyxchat_file_cancel(f)
FilePauseStep == \E f \in AllFileIds : cyxchat_file_pause(f)
FileResumeStep == \E f \in AllFileIds : cyxchat_file_resume(f)
\* frames to the sender of a file, from its peer or from somebody else
FileSenderMsgStep ==
    \E from \in FilePeers, msg \in AcceptMsgs \cup CompleteMsgs \cup SenderControlMsgs :
        cyxchat_file_handle_message(from, msg, TRUE)
\* frames to the receiver of a file
FileReceiverMsgStep ==
    \E msg \in MetaMsgs \cup ChunkMsgs \cup ReceiverControlMsgs :
        cyxchat_file_handle_message("n1", msg, TRUE)
\* FILE_CHUNK frames from a node that is not the sender of the file
ForeignChunkStep ==
    \E msg \in ChunkMsgs : cyxchat_file_handle_message("n2", msg, TRUE)

(***************************************************************************)
(* Group engine (group.c)                                                  *)
(*                                                                         *)
(* The group table is the sequence groups[0 .. group_count); a group keeps *)
(* its id, its member list (node id and role), key_version and the `left`  *)
(* flag.  Group ids are opaque values; the id cyxchat_group_create draws   *)
(* at random is fresh.  The library never adds a member other than the     *)
(* local node: the member lists of the host's groups are filled in by the  *)
(* host, through the cyxchat_group_t pointer that cyxchat_group_find and   *)
(* cyxchat_group_get hand out (HostSetMember).                             *)
(***************************************************************************)
CYXCHAT_MAX_GROUPS == 32
CYXCHAT_MAX_GROUP_MEMBERS == 50
CYXCHAT_ROLE_MEMBER == 0
CYXCHAT_ROLE_ADMIN == 1
CYXCHAT_ROLE_OWNER == 2

Roles == {CYXCHAT_ROLE_MEMBER, CYXCHAT_ROLE_ADMIN, CYXCHAT_ROLE_OWNER}

\* find_group: the indices holding the id (the first one is returned)
find_group(gs, group_id) == {i \in 1..Len(gs) : gs[i].group_id = group_id}

find_member(group, node_id) ==
    {k \in 1..Len(group.members) : group.members[k].node_id = node_id}

is_member(group, node_id) == find_member(group, node_id) # {}

get_role(group, node_id) ==
    IF is_member(group, node_id)
    THEN group.members[MinOf(find_member(group, node_id))].role
    ELSE CYXCHAT_ROLE_MEMBER

\* a fresh group entry with the local node as its only member
NewGroup(group_id, role) ==
    [group_id |-> group_id, members |-> <<[node_id |-> LocalId, role |-> role]>>,
     key_version |-> 1, left |-> FALSE]

GroupInit ==
    /\ groups = <<>>
    /\ group_count = 0

GroupEv(op, group_id, target, result) ==
    [Ev(op, "none") EXCEPT !.group.id = group_id, !.group.target = target,
                           !.group.result = result]

GroupUnchanged ==
    UNCHANGED <<clock, ticks, connVars, chatVars, dnsVars, fileVars, appVars>>

\* cyxchat_group_create(name, group_id_out)
cyxchat_group_create(group_id) ==
    /\ find_group(groups, group_id) = {}
    /\ group_count \in GroupCounts
    /\ IF group_count >= CYXCHAT_MAX_GROUPS
       THEN /\ ev' = GroupEv("group_create", group_id, "none", "CYXCHAT_ERR_FULL")
            /\ UNCHANGED groupVars
       ELSE /\ groups' = Append(groups, NewGroup(group_id, CYXCHAT_ROLE_OWNER))
            /\ group_count' = group_count + 1
            /\ ev' = GroupEv("group_create", group_id, "none", "OK")
    /\ GroupUnchanged

\* cyxchat_group_accept_invite(invite)
cyxchat_group_accept_invite(group_id) ==
    /\ group_count \in GroupCounts
    /\ IF group_count >= CYXCHAT_MAX_GROUPS
       THEN /\ ev' = GroupEv("group_accept_invite", group_id, "none", "CYXCHAT_ERR_FULL")
            /\ UNCHANGED groupVars
       ELSE /\ groups' = Append(groups, NewGroup(group_id, CYXCHAT_ROLE_MEMBER))
            /\ group_count' = group_count + 1
            /\ ev' = GroupEv("group_accept_invite", group_id, "none", "OK")
    /\ GroupUnchanged

\* cyxchat_group_leave(group_id)
cyxchat_group_leave(group_id) ==
    LET found == find_group(groups, group_id)
    IN  /\ IF found = {}
           THEN /\ ev' = GroupEv("group_leave", group_id, "none", "CYXCHAT_ERR_NOT_FOUND")
                /\ UNCHANGED groups
           ELSE /\ groups' = [groups EXCEPT ![MinOf(found)].left = TRUE]
                /\ ev' = GroupEv("group_leave", group_id, "none", "OK")
        /\ UNCHANGED group_count
        /\ GroupUnchanged

\* the group after cyxchat_group_rotate_key has succeeded
rotate_key(group) == [group EXCEPT !.key_version = @ + 1]

\* cyxchat_group_rotate_key(group_id)
cyxchat_group_rotate_key(group_id) ==
    LET found == find_group(groups, group_id)
        i == MinOf(found)
    IN  /\ found # {} => groups[i].key_version \in KeyVersions
        /\ IF found = {}
           THEN /\ ev' = GroupEv("group_rotate_key", group_id, "none",
                                 "CYXCHAT_ERR_NOT_FOUND")
                /\ UNCHANGED groups
           ELSE IF get_role(groups[i], LocalId) < CYXCHAT_ROLE_ADMIN
           THEN /\ ev' = GroupEv("group_rotate_key", group_id, "none",
                                 "CYXCHAT_ERR_NOT_ADMIN")
                /\ UNCHANGED groups
           ELSE /\ groups' = [groups EXCEPT ![i] = rotate_key(groups[i])]
                /\ ev' = GroupEv("group_rotate_key", group_id, "none", "OK")
        /\ UNCHANGED group_count
        /\ GroupUnchanged

\* the member list without entry k: the last entry moves into its place
drop_member(members, k) ==
    LET n == Len(members)
    IN  SubSeq(IF k < n THEN [members EXCEPT ![k] = members[n]] ELSE members, 1, n - 1)

\* cyxchat_group_remove_member that lets an admin remove an admin
remove_verdict_no_admin_check(our_role, target_role) ==
    IF target_role = CYXCHAT_ROLE_OWNER THEN "CYXCHAT_ERR_INVALID"
    ELSE "OK"

\* what cyxchat_group_remove_member decides for a member it has found
remove_verdict(our_role, target_role) ==
    IF target_role = CYXCHAT_ROLE_OWNER THEN "CYXCHAT_ERR_INVALID"
    ELSE IF our_role = CYXCHAT_ROLE_ADMIN /\ target_role = CYXCHAT_ROLE_ADMIN
         THEN "CYXCHAT_ERR_NOT_ADMIN"
    ELSE "OK"

\* cyxchat_group_remove_member(group_id, member)
cyxchat_group_remove_member(group_id, member) ==
    LET found == find_group(groups, group_id)
        i == MinOf(found)
        group == groups[i]
        our_role == get_role(group, LocalId)
        at == find_member(group, member)
        k == MinOf(at)
        verdict == remove_verdict(our_role, group.members[k].role)
        refused(result) ==
            /\ ev' = GroupEv("group_remove_member", group_id, member, result)
            /\ UNCHANGED groups
    IN  /\ found # {} => groups[i].key_version \in KeyVersions
        /\ IF found = {} THEN refused("CYXCHAT_ERR_NOT_FOUND")
           ELSE IF our_role < CYXCHAT_ROLE_ADMIN THEN refused("CYXCHAT_ERR_NOT_ADMIN")
           ELSE IF at = {} THEN refused("CYXCHAT_ERR_NOT_FOUND")
           ELSE IF verdict # "OK" THEN refused(verdict)
           ELSE LET removed == [group EXCEPT !.members = drop_member(@, k)]
                IN  /\ groups' = [groups EXCEPT ![i] =
                                    IF get_role(removed, LocalId) < CYXCHAT_ROLE_ADMIN
                                    THEN removed
                                    ELSE rotate_key(removed)]
                    /\ ev' = GroupEv("group_remove_member", group_id, member, "OK")
        /\ UNCHANGED group_count
        /\ GroupUnchanged

\* cyxchat_group_add_admin and cyxchat_group_remove_admin: the groups
\* afterwards and the return value, `role` being the role the member is given
set_admin(group_id, member, role) ==
    LET found == find_group(groups, group_id)
        i == MinOf(found)
        group == groups[i]
        at == find_member(group, member)
        k == MinOf(at)
        refused(result) == [groups |-> groups, result |-> result]
    IN  IF found = {} THEN refused("CYXCHAT_ERR_NOT_FOUND")
        ELSE IF get_role(group, LocalId) # CYXCHAT_ROLE_OWNER
             THEN refused("CYXCHAT_ERR_NOT_ADMIN")
        ELSE IF at = {} THEN refused("CYXCHAT_ERR_NOT_MEMBER")
        ELSE IF role = CYXCHAT_ROLE_MEMBER /\ group.members[k].role = CYXCHAT_ROLE_OWNER
             THEN refused("CYXCHAT_ERR_INVALID")
        ELSE [groups |-> [groups EXCEPT ![i].members[k].role = role], result |-> "OK"]

\* cyxchat_group_add_admin(group_id, member)
cyxchat_group_add_admin(group_id, member) ==
    LET out == set_admin(group_id, member, CYXCHAT_ROLE_ADMIN)
    IN  /\ groups' = out.groups
        /\ ev' = GroupEv("group_add_admin", group_id, member, out.result)
        /\ UNCHANGED group_count
        /\ GroupUnchanged

\* cyxchat_group_remove_admin(group_id, member)
cyxchat_group_remove_admin(group_id, member) ==
    LET out == set_admin(group_id, member, CYXCHAT_ROLE_MEMBER)
    IN  /\ groups' = out.groups
        /\ ev' = GroupEv("group_remove_admin", group_id, member, out.result)
        /\ UNCHANGED group_count
        /\ GroupUnchanged

\* the host writes a member entry of a group through the pointer it got from
\* cyxchat_group_find: the role of a member it knows, or a new member
HostSetMember(group_id, node_id, role) ==
    LET found == find_group(groups, group_id)
        i == MinOf(found)
        at == find_member(groups[i], node_id)
    IN  /\ found # {}
        /\ at = {} => Len(groups[i].members) < CYXCHAT_MAX_GROUP_MEMBERS
        /\ groups' = [groups EXCEPT ![i].members =
                        IF at = {} THEN Append(@, [node_id |-> node_id, role |-> role])
                        ELSE [@ EXCEPT ![MinOf(at)].role = role]]
        /\ ev' = GroupEv("host_set_member", group_id, node_id, "OK")
        /\ UNCHANGED group_count
        /\ GroupUnchanged

GroupCreateStep == \E g \in GroupIds : cyxchat_group_create(g)
GroupAcceptInviteStep == \E g \in GroupIds : cyxchat_group_accept_invite(g)
\* cyxchat_group_send_text(group_id, text, text_len, reply_to, msg_id_out) with
\* a text of allowed length: the message is built and handed to nobody
cyxchat_group_send_text(group_id) ==
    LET found == find_group(groups, group_id)
        i == MinOf(found)
    IN  /\ ev' = GroupEv("group_send_text", group_id, "none",
                         IF found = {} THEN "CYXCHAT_ERR_NOT_FOUND"
                         ELSE IF ~is_member(groups[i], LocalId) \/ groups[i].left
                         THEN "CYXCHAT_ERR_NOT_MEMBER"
                         ELSE "OK")
        /\ UNCHANGED groupVars
        /\ GroupUnchanged

GroupLeaveStep == \E g \in GroupIds : cyxchat_group_leave(g)
GroupSendTextStep == \E g \in GroupIds : cyxchat_group_send_text(g)
GroupRotateKeyStep == \E g \in GroupIds : cyxchat_group_rotate_key(g)
GroupRemoveMemberStep ==
    \E g \in GroupIds, m \in GroupNodes : cyxchat_group_remove_member(g, m)
GroupAddAdminStep == \E g \in GroupIds, m \in GroupNodes : cyxchat_group_add_admin(g, m)
GroupRemoveAdminStep ==
    \E g \in GroupIds, m \in GroupNodes : cyxchat_group_remove_admin(g, m)
HostSetMemberStep ==
    \E g \in GroupIds, m \in GroupNodes, r \in Roles : HostSetMember(g, m, r)

(***************************************************************************)
(* Mail engine (mail.c)                                                    *)
(*                                                                         *)
(* A cyxchat_mail_t is owned by one holder at a time: the host from        *)
(* cyxchat_mail_create until it hands the mail to cyxchat_mail_send or     *)
(* cyxchat_mail_save_draft (which take ownership), then a stored[] slot or *)
(* an active pending entry.  The model therefore keeps mails by value.     *)
(* The four callbacks are registered.                                      *)
(***************************************************************************)
MAIL_MAX_STORED == 256
MAIL_MAX_PENDING == 16
MAIL_RETRY_INTERVAL_MS == 30000
MAIL_RETRY_MAX == 3
CYXCHAT_MAX_RECIPIENTS == 10
CYXCHAT_FOLDER_INBOX == 0
CYXCHAT_FOLDER_SENT == 1
CYXCHAT_FOLDER_DRAFTS == 2
CYXCHAT_FOLDER_ARCHIVE == 3
CYXCHAT_FOLDER_TRASH == 4
CYXCHAT_MAIL_STATUS_DRAFT == 0
CYXCHAT_MAIL_STATUS_QUEUED == 1
CYXCHAT_MAIL_STATUS_SENT == 2
CYXCHAT_MAIL_STATUS_DELIVERED == 3
CYXCHAT_MAIL_STATUS_FAILED == 4
CYXCHAT_MAIL_FLAG_DRAFT == 8
CYXCHAT_MAIL_FLAG_DELETED == 16
CYXCHAT_BOUNCE_TIMEOUT == 2
CYXCHAT_MSG_MAIL_SEND == 224
CYXCHAT_MSG_MAIL_ACK == 225

PendingSlots == 0..(MAIL_MAX_PENDING - 1)

\* a NULL cyxchat_mail_t pointer
NullMail == [mail_id |-> "null", status |-> 0, folder_type |-> 0, flags |-> 0, to_count |-> 0]

\* a pending[] slot after calloc
ZeroPendingSend == [active |-> FALSE, mail |-> NullMail, start_time |-> 0, last_retry |-> 0,
                    retries |-> 0]

SetFlag(flags, bit) == IF HasFlag(flags, bit) THEN flags ELSE flags + bit

ClearFlag(flags, bit) == IF HasFlag(flags, bit) THEN flags - bit ELSE flags

\* find_mail: the slots that hold a mail with this id; the first one is returned
find_mail(stored, mail_id) ==
    {i \in 1..Len(stored) : stored[i] # NullMail /\ stored[i].mail_id = mail_id}

\* find_free_slot: first NULL slot of stored[], MAIL_MAX_STORED + 1 when there is none
find_free_slot(stored) ==
    LET free == {i \in 1..Len(stored) : stored[i] = NullMail}
    IN  IF free # {} THEN MinOf(free)
        ELSE IF Len(stored) < MAIL_MAX_STORED THEN Len(stored) + 1
        ELSE MAIL_MAX_STORED + 1

\* store_mail
store_mail(stored, mail) ==
    LET slot == find_free_slot(stored)
    IN  IF slot > MAIL_MAX_STORED THEN [ok |-> FALSE, stored |-> stored]
        ELSE IF slot > Len(stored) THEN [ok |-> TRUE, stored |-> Append(stored, mail)]
        ELSE [ok |-> TRUE, stored |-> [stored EXCEPT ![slot] = mail]]

\* remove_mail: frees the first mail with this id and clears its slot
remove_mail(stored, mail_id) ==
    LET found == find_mail(stored, mail_id)
    IN  IF found = {} THEN stored ELSE [stored EXCEPT ![MinOf(found)] = NullMail]

\* find_pending_slot: the inactive slots; the first one is returned
find_pending_slot(pd) == {i \in PendingSlots : ~pd[i].active}

MailCb(name, mail_id, arg) == [cb |-> name, mail_id |-> mail_id, arg |-> arg]

MailEv(op, mail_id, result, cb) ==
    [Ev(op, "none") EXCEPT !.mail = [id |-> mail_id, result |-> result, cb |-> cb]]

MailUnchanged ==
    UNCHANGED <<connVars, chatVars, dnsVars, fileVars, groupVars, presence, contacts>>

DropKey(f, k) == [j \in DOMAIN f \ {k} |-> f[j]]

MailInit ==
    /\ mail_stored = <<>>
    /\ mail_pending = [i \in PendingSlots |-> ZeroPendingSend]
    /\ mail_owned = <<>>

\* the monotonic clock advances
MailTick ==
    /\ ticks < MaxMailTicks
    /\ \E d \in StepsMail : clock' = clock + d
    /\ ticks' = ticks + 1
    /\ ev' = Ev("tick", "none")
    /\ UNCHANGED mailVars
    /\ MailUnchanged

\* cyxchat_mail_create: a fresh random id; mem_ok is calloc's answer
cyxchat_mail_create(mail_id, mem_ok) ==
    /\ mail_id \notin DOMAIN mail_owned
    /\ find_mail(mail_stored, mail_id) = {}
    /\ IF ~mem_ok
       THEN /\ ev' = MailEv("mail_create", mail_id, "ERR_MEMORY", <<>>)
            /\ UNCHANGED mail_owned
       ELSE /\ mail_owned' = [k \in DOMAIN mail_owned \cup {mail_id} |->
                                IF k = mail_id
                                THEN [mail_id |-> mail_id,
                                      status |-> CYXCHAT_MAIL_STATUS_DRAFT,
                                      folder_type |-> CYXCHAT_FOLDER_DRAFTS,
                                      flags |-> 0, to_count |-> 0]
                                ELSE mail_owned[k]]
            /\ ev' = MailEv("mail_create", mail_id, "OK", <<>>)
    /\ UNCHANGED <<clock, ticks, mail_stored, mail_pending>>
    /\ MailUnchanged

\* cyxchat_mail_add_to on a mail the host holds
cyxchat_mail_add_to(mail_id) ==
    /\ mail_id \in DOMAIN mail_owned
    /\ mail_owned[mail_id].to_count \in MailToCounts
    /\ IF mail_owned[mail_id].to_count >= CYXCHAT_MAX_RECIPIENTS
       THEN /\ ev' = MailEv("mail_add_to", mail_id, "ERR_FULL", <<>>)
            /\ UNCHANGED mail_owned
       ELSE /\ mail_owned' = [mail_owned EXCEPT ![mail_id].to_count = @ + 1]
            /\ ev' = MailEv("mail_add_to", mail_id, "OK", <<>>)
    /\ UNCHANGED <<clock, ticks, mail_stored, mail_pending>>
    /\ MailUnchanged

\* cyxchat_mail_send on a mail the host holds; sign_ok is sign_mail's answer
cyxchat_mail_send(mail_id, sign_ok) ==
    LET mail == mail_owned[mail_id]
        free == find_pending_slot(mail_pending)
        queued == [mail EXCEPT !.status = CYXCHAT_MAIL_STATUS_QUEUED]
        sent == [mail EXCEPT !.status = CYXCHAT_MAIL_STATUS_SENT,
                             !.folder_type = CYXCHAT_FOLDER_SENT]
    IN
    /\ mail_id \in DOMAIN mail_owned
    /\ IF mail.to_count = 0
       THEN /\ ev' = MailEv("mail_send", mail_id, "ERR_INVALID", <<>>)
            /\ UNCHANGED mailVars
       ELSE IF ~sign_ok
       THEN /\ ev' = MailEv("mail_send", mail_id, "ERR_CRYPTO", <<>>)
            /\ UNCHANGED mailVars
       ELSE IF free = {}
       THEN /\ ev' = MailEv("mail_send", mail_id, "ERR_FULL", <<>>)
            /\ mail_owned' = [mail_owned EXCEPT ![mail_id] = queued]
            /\ UNCHANGED <<mail_stored, mail_pending>>
       ELSE \* the entry is filled in, the send is "simulated", and the entry
            \* is released again before the function returns
            /\ mail_pending' = [mail_pending EXCEPT ![MinOf(free)] =
                    [active |-> FALSE, mail |-> sent, start_time |-> clock,
                     last_retry |-> clock, retries |-> 0]]
            /\ mail_stored' = store_mail(mail_stored, sent).stored
            /\ mail_owned' = DropKey(mail_owned, mail_id)
            /\ ev' = MailEv("mail_send", mail_id, "OK",
                            <<MailCb("on_sent", mail_id, CYXCHAT_MAIL_STATUS_SENT)>>)
    /\ UNCHANGED <<clock, ticks>>
    /\ MailUnchanged

\* cyxchat_mail_save_draft on a mail the host holds
cyxchat_mail_save_draft(mail_id) ==
    LET mail == mail_owned[mail_id]
        draft == [mail EXCEPT !.status = CYXCHAT_MAIL_STATUS_DRAFT,
                              !.folder_type = CYXCHAT_FOLDER_DRAFTS,
                              !.flags = SetFlag(@, CYXCHAT_MAIL_FLAG_DRAFT)]
        r == store_mail(mail_stored, draft)
    IN
    /\ mail_id \in DOMAIN mail_owned
    /\ mail_stored' = r.stored
    /\ mail_owned' = IF r.ok THEN DropKey(mail_owned, mail_id)
                     ELSE [mail_owned EXCEPT ![mail_id] = draft]
    /\ ev' = MailEv("mail_save_draft", mail_id, IF r.ok THEN "OK" ELSE "ERR_FULL", <<>>)
    /\ UNCHANGED <<clock, ticks, mail_pending>>
    /\ MailUnchanged

\* one iteration of the loop of cyxchat_mail_poll, on pending[i]
poll_pending(st, i, now) ==
    LET entry == st.pending[i] IN
    IF ~entry.active THEN st
    ELSE IF ~(Sub64(now, entry.last_retry) > MAIL_RETRY_INTERVAL_MS) THEN st
    ELSE IF entry.retries >= MAIL_RETRY_MAX
    THEN IF entry.mail # NullMail
         THEN LET bounced == [entry.mail EXCEPT !.status = CYXCHAT_MAIL_STATUS_FAILED,
                                                  !.folder_type = CYXCHAT_FOLDER_SENT]
              IN  [stored |-> store_mail(st.stored, bounced).stored,
                   pending |-> [st.pending EXCEPT ![i].active = FALSE, ![i].mail = NullMail],
                   cb |-> Append(st.cb, MailCb("on_bounce", bounced.mail_id,
                                               CYXCHAT_BOUNCE_TIMEOUT)),
                   retried |-> st.retried]
         ELSE [st EXCEPT !.pending[i].active = FALSE]
    ELSE [st EXCEPT !.pending[i].retries = @ + 1, !.pending[i].last_retry = now,
                    !.retried = @ \cup {i}]

RECURSIVE poll_pendings(_, _, _)
poll_pendings(st, i, now) ==
    IF i >= MAIL_MAX_PENDING THEN st
    ELSE poll_pendings(poll_pending(st, i, now), i + 1, now)

\* cyxchat_mail_poll(now_ms) with now_ms = clock
cyxchat_mail_poll ==
    LET r == poll_pendings([stored |-> mail_stored, pending |-> mail_pending,
                            cb |-> <<>>, retried |-> {}], 0, clock)
    IN  /\ mail_stored' = r.stored
        /\ mail_pending' = r.pending
        /\ ev' = MailEv("mail_poll", "none", "OK", r.cb)
        /\ UNCHANGED <<clock, ticks, mail_owned>>
        /\ MailUnchanged

\* cyxchat_mail_move
cyxchat_mail_move(mail_id, folder) ==
    LET found == find_mail(mail_stored, mail_id) IN
    /\ IF found = {}
       THEN /\ ev' = MailEv("mail_move", mail_id, "ERR_NOT_FOUND", <<>>)
            /\ UNCHANGED mail_stored
       ELSE /\ mail_stored' = [mail_stored EXCEPT
                    ![MinOf(found)].folder_type = folder,
                    ![MinOf(found)].flags = IF folder # CYXCHAT_FOLDER_DRAFTS
                                            THEN ClearFlag(@, CYXCHAT_MAIL_FLAG_DRAFT) ELSE @]
            /\ ev' = MailEv("mail_move", mail_id, "OK", <<>>)
    /\ UNCHANGED <<clock, ticks, mail_pending, mail_owned>>
    /\ MailUnchanged

\* cyxchat_mail_delete, with the cyxchat_mail_delete_permanent it calls
cyxchat_mail_delete(mail_id) ==
    LET found == find_mail(mail_stored, mail_id) IN
    /\ IF found = {}
       THEN /\ ev' = MailEv("mail_delete", mail_id, "ERR_NOT_FOUND", <<>>)
            /\ UNCHANGED mail_stored
       ELSE IF mail_stored[MinOf(found)].folder_type = CYXCHAT_FOLDER_TRASH
       THEN /\ mail_stored' = remove_mail(mail_stored, mail_id)
            /\ ev' = MailEv("mail_delete", mail_id, "OK", <<>>)
       ELSE /\ mail_stored' = [mail_stored EXCEPT
                    ![MinOf(found)].folder_type = CYXCHAT_FOLDER_TRASH,
                    ![MinOf(found)].flags = SetFlag(@, CYXCHAT_MAIL_FLAG_DELETED)]
            /\ ev' = MailEv("mail_delete", mail_id, "OK", <<>>)
    /\ UNCHANGED <<clock, ticks, mail_pending, mail_owned>>
    /\ MailUnchanged

\* cyxchat_mail_empty_trash
cyxchat_mail_empty_trash ==
    /\ mail_stored' = [i \in 1..Len(mail_stored) |->
                         IF mail_stored[i] # NullMail
                            /\ mail_stored[i].folder_type = CYXCHAT_FOLDER_TRASH
                         THEN NullMail ELSE mail_stored[i]]
    /\ ev' = MailEv("mail_empty_trash", "none", "OK", <<>>)
    /\ UNCHANGED <<clock, ticks, mail_pending, mail_owned>>
    /\ MailUnchanged

\* the MAIL_ACK branch: the first active pending entry for this mail id
ack_pending(pd, mail_id) ==
    {i \in PendingSlots : pd[i].active /\ pd[i].mail # NullMail
                          /\ pd[i].mail.mail_id = mail_id}

\* cyxchat_mail_handle_message(from, data, len); msg is the parsed frame and
\* mem_ok is calloc's answer
cyxchat_mail_handle_message(from, msg, mem_ok) ==
    /\ UNCHANGED <<clock, ticks, mail_owned>>
    /\ MailUnchanged
    /\ IF msg.type = CYXCHAT_MSG_MAIL_SEND
       THEN IF ~mem_ok
            THEN /\ ev' = MailEv("mail_msg", msg.mail_id, "ERR_MEMORY", <<>>)
                 /\ UNCHANGED <<mail_stored, mail_pending>>
            ELSE LET mail == [mail_id |-> msg.mail_id,
                              status |-> CYXCHAT_MAIL_STATUS_DELIVERED,
                              folder_type |-> CYXCHAT_FOLDER_INBOX,
                              flags |-> 0, to_count |-> 0]
                 IN  /\ mail_stored' = store_mail(mail_stored, mail).stored
                     /\ ev' = MailEv("mail_msg", msg.mail_id, "OK",
                                     <<MailCb("on_received", msg.mail_id, from)>>)
                     /\ UNCHANGED mail_pending
       ELSE IF msg.type = CYXCHAT_MSG_MAIL_ACK
       THEN LET hit == ack_pending(mail_pending, msg.mail_id) IN
            IF hit = {}
            THEN /\ ev' = MailEv("mail_msg", msg.mail_id, "OK", <<>>)
                 /\ UNCHANGED <<mail_stored, mail_pending>>
            ELSE LET i == MinOf(hit)
                     status == IF msg.status = 0 THEN CYXCHAT_MAIL_STATUS_DELIVERED
                               ELSE CYXCHAT_MAIL_STATUS_FAILED
                     acked == [mail_pending[i].mail EXCEPT
                                 !.status = status, !.folder_type = CYXCHAT_FOLDER_SENT]
                 IN  /\ mail_stored' = store_mail(mail_stored, acked).stored
                     /\ mail_pending' = [mail_pending EXCEPT ![i].mail = NullMail,
                                                             ![i].active = FALSE]
                     /\ ev' = MailEv("mail_msg", msg.mail_id, "OK",
                                     <<MailCb("on_sent", msg.mail_id, status)>>)
       ELSE /\ ev' = MailEv("mail_msg", "none", "ERR_INVALID", <<>>)
            /\ UNCHANGED <<mail_stored, mail_pending>>

\* frames a peer can send
MailMsgs ==
    {[type |-> CYXCHAT_MSG_MAIL_SEND, mail_id |-> m, status |-> 0] : m \in RemoteMailIds}
    \cup {[type |-> CYXCHAT_MSG_MAIL_ACK, mail_id |-> m, status |-> s] :
            m \in LocalMailIds, s \in {0, 1}}

MailRoom == Len(mail_stored) < MaxMailStored

MailCreateStep == \E m \in LocalMailIds, mem_ok \in BOOLEAN : cyxchat_mail_create(m, mem_ok)
MailAddToStep == \E m \in LocalMailIds : cyxchat_mail_add_to(m)
MailSendStep == \E m \in LocalMailIds, sign_ok \in BOOLEAN :
                    MailRoom /\ cyxchat_mail_send(m, sign_ok)
MailSaveDraftStep == \E m \in LocalMailIds : MailRoom /\ cyxchat_mail_save_draft(m)
MailPollStep == cyxchat_mail_poll
MailMoveStep == \E m \in LocalMailIds \cup RemoteMailIds :
                    cyxchat_mail_move(m, CYXCHAT_FOLDER_ARCHIVE)
MailDeleteStep == \E m \in LocalMailIds \cup RemoteMailIds : cyxchat_mail_delete(m)
MailEmptyTrashStep == cyxchat_mail_empty_trash
MailMsgStep == \E msg \in MailMsgs, mem_ok \in BOOLEAN :
                    /\ (msg.type = CYXCHAT_MSG_MAIL_SEND => MailRoom)
                    /\ cyxchat_mail_handle_message("n1", msg, mem_ok)

(***************************************************************************)
(* Presence engine (presence.c)                                            *)
(*                                                                         *)
(* cyxchat_presence_ctx_create, set_auto_away and activity stamp           *)
(* last_activity with cyxchat_timestamp_ms() and the host passes the       *)
(* current time to cyxchat_presence_poll; both read `clock`.  Nothing in   *)
(* the library adds an entry to the presence cache (add_presence has no    *)
(* caller), so cache_count stays 0 and the expiry loop of the poll has     *)
(* nothing to visit.  cyxchat_presence_broadcast builds a message and      *)
(* sends nothing.                                                          *)
(***************************************************************************)
CYXCHAT_PRESENCE_OFFLINE == 0
CYXCHAT_PRESENCE_ONLINE == 1
CYXCHAT_PRESENCE_AWAY == 2
CYXCHAT_PRESENCE_BUSY == 3
CYXCHAT_PRESENCE_INVISIBLE == 4

\* no auto-away transition is waiting for an activity() call
NoneOwed == 0 - 1

PresenceInit ==
    presence = [our_status |-> CYXCHAT_PRESENCE_ONLINE,
                auto_away_timeout |-> 0,
                last_activity |-> clock,
                auto_away_active |-> FALSE,
                status_before_away |-> CYXCHAT_PRESENCE_OFFLINE,
                \* history: the status the last auto-away transition replaced,
                \* until the next activity() call
                owed |-> NoneOwed]

PresenceUnchanged ==
    UNCHANGED <<connVars, chatVars, dnsVars, fileVars, groupVars, mailVars, contacts>>

\* the clock advances
PresenceTick ==
    /\ ticks < MaxPresenceTicks
    /\ \E d \in StepsPresence : clock' = clock + d
    /\ ticks' = ticks + 1
    /\ ev' = Ev("tick", "none")
    /\ UNCHANGED presence
    /\ PresenceUnchanged

\* the auto-away test of cyxchat_presence_poll
auto_away_due(p, now) ==
    /\ p.auto_away_timeout > 0
    /\ ~p.auto_away_active
    /\ Sub64(now, p.last_activity) > p.auto_away_timeout

\* cyxchat_presence_poll(now_ms) with now_ms = clock
cyxchat_presence_poll ==
    /\ presence' = IF auto_away_due(presence, clock)
                   THEN [presence EXCEPT !.status_before_away = presence.our_status,
                                         !.our_status = CYXCHAT_PRESENCE_AWAY,
                                         !.auto_away_active = TRUE,
                                         !.owed = presence.our_status]
                   ELSE presence
    /\ ev' = Ev("presence_poll", "none")
    /\ UNCHANGED <<clock, ticks>>
    /\ PresenceUnchanged

\* cyxchat_presence_set_status(status, status_text)
cyxchat_presence_set_status(status) ==
    /\ presence' = [presence EXCEPT !.our_status = status, !.auto_away_active = FALSE,
                                    \* the host has chosen a status: nothing to restore
                                    !.owed = NoneOwed]
    /\ ev' = Ev("presence_set_status", "none")
    /\ UNCHANGED <<clock, ticks>>
    /\ PresenceUnchanged

\* cyxchat_presence_set_auto_away(timeout_ms)
cyxchat_presence_set_auto_away(timeout_ms) ==
    /\ presence' = [presence EXCEPT !.auto_away_timeout = timeout_ms,
                                    !.last_activity = clock,
                                    !.auto_away_active = FALSE]
    /\ ev' = Ev("presence_set_auto_away", "none")
    /\ UNCHANGED <<clock, ticks>>
    /\ PresenceUnchanged

\* the status cyxchat_presence_activity leaves
activity_status(p) == IF p.auto_away_active THEN p.status_before_away ELSE p.our_status

\* cyxchat_presence_activity()
cyxchat_presence_activity ==
    /\ presence' = [presence EXCEPT !.last_activity = clock,
                                    !.our_status = activity_status(presence),
                                    !.auto_away_active = FALSE,
                                    !.owed = NoneOwed]
    /\ ev' = Ev("presence_activity", "none")
    /\ UNCHANGED <<clock, ticks>>
    /\ PresenceUnchanged

PresencePollStep == cyxchat_presence_poll
PresenceSetStatusStep == \E s \in PresenceStatuses : cyxchat_presence_set_status(s)
PresenceSetAutoAwayStep == \E t \in AwayTimeouts : cyxchat_presence_set_auto_away(t)
PresenceActivityStep == cyxchat_presence_activity

(***************************************************************************)
(* Contact list (contact.c)                                                *)
(***************************************************************************)
CYXCHAT_MAX_CONTACTS == 256

ContactInit == contacts = <<>>

ContactUnchanged ==
    UNCHANGED <<clock, ticks, connVars, chatVars, dnsVars, fileVars, groupVars, mailVars,
                presence>>

ContactEv(op, node_id, result) ==
    [Ev(op, "none") EXCEPT !.contact = [id |-> node_id, result |-> result]]

\* cyxchat_contact_find: the slots holding this node id; the first is returned
cyxchat_contact_find(list, node_id) ==
    {i \in 1..Len(list) : list[i].node_id = node_id}

\* cyxchat_contact_add(node_id, public_key, display_name)
cyxchat_contact_add(node_id) ==
    /\ IF cyxchat_contact_find(contacts, node_id) # {}
       THEN /\ ev' = ContactEv("contact_add", node_id, "ERR_EXISTS")
            /\ UNCHANGED contacts
       ELSE IF Len(contacts) >= CYXCHAT_MAX_CONTACTS
       THEN /\ ev' = ContactEv("contact_add", node_id, "ERR_FULL")
            /\ UNCHANGED contacts
       ELSE /\ contacts' = Append(contacts,
                    [node_id |-> node_id, blocked |-> FALSE, verified |-> FALSE])
            /\ ev' = ContactEv("contact_add", node_id, "OK")
    /\ ContactUnchanged

\* a removal that drops the last slot without moving it
remove_slot_truncate(list, i) == SubSeq(list, 1, Len(list) - 1)

\* the slot removal of cyxchat_contact_remove: the last contact is moved into
\* slot i, the last slot is cleared and count is decremented
remove_slot(list, i) ==
    LET n == Len(list)
        moved == IF i < n THEN [list EXCEPT ![i] = list[n]] ELSE list
    IN  SubSeq(moved, 1, n - 1)

\* cyxchat_contact_remove(node_id)
cyxchat_contact_remove(node_id) ==
    LET found == cyxchat_contact_find(contacts, node_id) IN
    /\ IF found = {}
       THEN /\ ev' = ContactEv("contact_remove", node_id, "ERR_NOT_FOUND")
            /\ UNCHANGED contacts
       ELSE /\ contacts' = remove_slot(contacts, MinOf(found))
            /\ ev' = ContactEv("contact_remove", node_id, "OK")
    /\ ContactUnchanged

\* cyxchat_contact_set_blocked(node_id, blocked)
cyxchat_contact_set_blocked(node_id, blocked) ==
    LET found == cyxchat_contact_find(contacts, node_id) IN
    /\ IF found = {}
       THEN /\ ev' = ContactEv("contact_set_blocked", node_id, "ERR_NOT_FOUND")
            /\ UNCHANGED contacts
       ELSE /\ contacts' = [contacts EXCEPT ![MinOf(found)].blocked = blocked]
            /\ ev' = ContactEv("contact_set_blocked", node_id, "OK")
    /\ ContactUnchanged

ContactAddStep == \E n \in ContactIds : cyxchat_contact_add(n)
ContactRemoveStep == \E n \in ContactIds : cyxchat_contact_remove(n)
ContactSetBlockedStep == \E n \in ContactIds, b \in BOOLEAN : cyxchat_contact_set_blocked(n, b)

AppInit == MailInit /\ PresenceInit /\ ContactInit

(***************************************************************************)
(* Steps and specifications                                                *)
(***************************************************************************)
ConnectStep == (\E p \in NodeIds, has_cb \in BOOLEAN : Connect(p, has_cb)) /\ UNCHANGED <<chatVars, dnsVars, fileVars, groupVars, appVars>>
DisconnectStep == (\E p \in NodeIds : Disconnect(p)) /\ UNCHANGED <<chatVars, dnsVars, fileVars, groupVars, appVars>>
RecvStep == \E p \in NodeIds, cls \in FrameClasses \ {"announce"},
                 inner \in NodeIds \cup {"none"} :
               /\ (cls # "relay" => inner = "none")
               /\ on_transport_recv(p, cls, inner, TRUE)
               /\ UNCHANGED <<chatVars, dnsVars, fileVars, groupVars, appVars>>
\* an Announce arrives: the discovery handler passes its key on
KeyRecvStep == \E p \in NodeIds, key_ok \in BOOLEAN :
                  /\ on_transport_recv(p, "announce", "none", key_ok)
                  /\ UNCHANGED <<chatVars, dnsVars, fileVars, groupVars, appVars>>
DiscoveredStep == (\E p \in NodeIds, tx_ok \in BOOLEAN : on_peer_discovered(p, tx_ok)) /\ UNCHANGED <<chatVars, dnsVars, fileVars, groupVars, appVars>>
DhtNodeStep == (\E p \in NodeIds : on_dht_node_discovered(p)) /\ UNCHANGED <<chatVars, dnsVars, fileVars, groupVars, appVars>>
SendStep == (\E p \in NodeIds, tx_ok \in BOOLEAN : cyxchat_conn_send(p, tx_ok)) /\ UNCHANGED <<chatVars, dnsVars, fileVars, groupVars, appVars>>
ForceRelayStep == (\E p \in NodeIds, tx_ok \in BOOLEAN : cyxchat_conn_force_relay(p, tx_ok)) /\ UNCHANGED <<chatVars, dnsVars, fileVars, groupVars, appVars>>
PollStep == (\E tx \in [NodeIds -> BOOLEAN] : cyxchat_conn_poll(tx)) /\ UNCHANGED <<chatVars, dnsVars, fileVars, groupVars, appVars>>

\* the monotonic clock advances (announce specification)
TickAnn ==
    /\ ticks < MaxTicks
    /\ \E d \in StepsAnn : clock' = clock + d
    /\ ticks' = ticks + 1
    /\ ev' = Ev("tick", "none")
    /\ UNCHANGED connVars
    /\ UNCHANGED <<chatVars, dnsVars, fileVars, groupVars, appVars>>

\* the monotonic clock advances (relay keepalive specification)
TickRelay ==
    /\ ticks < MaxRelayTicks
    /\ \E d \in StepsRelay : clock' = clock + d
    /\ ticks' = ticks + 1
    /\ ev' = Ev("tick", "none")
    /\ UNCHANGED connVars
    /\ UNCHANGED <<chatVars, dnsVars, fileVars, groupVars, appVars>>

InitConn == ConnInit /\ ChatInit /\ DnsInit /\ FileInit /\ GroupInit /\ AppInit /\ dns_router /\ has_crypto

\* the connection state machine: connect, frames, sends, relay fallback, polls
NextConn ==
    \/ Tick
    \/ ConnectStep
    \/ DisconnectStep
    \/ RecvStep
    \/ DhtNodeStep
    \/ SendStep
    \/ ForceRelayStep
    \/ PollStep

SpecConn == InitConn /\ [][NextConn]_vars

\* key-exchange announces: every handler that creates a PeerConn or sends an
\* Announce, and the polls
NextAnn ==
    \/ TickAnn
    \/ DiscoveredStep
    \/ DhtNodeStep
    \/ ConnectStep
    \/ PollStep

SpecAnn == InitConn /\ [][NextAnn]_vars

\* key exchange: Announces arrive between connects, disconnects, other
\* frames and polls
NextKey ==
    \/ Tick
    \/ ConnectStep
    \/ DisconnectStep
    \/ KeyRecvStep
    \/ RecvStep
    \/ PollStep

SpecKey == InitConn /\ [][NextKey]_vars

\* relay sessions kept alive by sends: connects, forced relay, sends, polls
NextRelay ==
    \/ TickRelay
    \/ ConnectStep
    \/ ForceRelayStep
    \/ SendStep
    \/ PollStep

SpecRelay == InitConn /\ [][NextRelay]_vars

InitChat == InitConn /\ relay_servers = 0

\* the chat engine: a peer sends texts, the onion layer hands their frames up
\* in any order and any number of times, the host polls and pulls
NextChat ==
    \/ TickChat
    \/ SendTextStep
    \/ DeliverStep
    \/ ChatPollStep
    \/ RecvNextStep

SpecChat == InitChat /\ [][NextChat]_vars

\* the receive queue under a stream of whole messages and host reads
NextQueue ==
    \/ QueueDeliverStep
    \/ ChatPollStep
    \/ RecvNextStep

SpecQueue == InitChat /\ [][NextQueue]_vars

InitDns == ConnInit /\ relay_servers = 0 /\ ChatInit /\ DnsInit /\ FileInit /\ GroupInit /\ AppInit /\ dns_router

InitGossip == ConnInit /\ relay_servers = 0 /\ ChatInit /\ DnsInit /\ FileInit /\ GroupInit /\ AppInit

\* the DNS cache: the host looks names up and polls; the network hands up
\* DNS_REGISTER, DNS_LOOKUP and DNS_RESPONSE frames
NextDns ==
    \/ DnsTick
    \/ WallTick
    \/ DnsLookupStep
    \/ DnsPollStep
    \/ DnsRegisterMsgStep
    \/ DnsLookupMsgStep
    \/ DnsResponseMsgStep

SpecDns == InitDns /\ [][NextDns]_vars

\* tombstones in the cache: the network hands up registrations and
\* tombstones between polls
NextTomb ==
    \/ DnsTick
    \/ DnsPollStep
    \/ DnsRegisterMsgStep
    \/ DnsTombstoneMsgStep

SpecTomb == InitDns /\ [][NextTomb]_vars

\* query ids: the host looks up two names and peers answer, all within the
\* lookup timeout
NextQuery ==
    \/ DnsLookupStep
    \/ OtherLookupStep
    \/ NotFoundResponseStep
    \/ OtherResponseStep

SpecQuery == InitDns /\ [][NextQuery]_vars

\* DNS gossip: every emitter of DNS_REGISTER frames (the host registers,
\* refreshes, unregisters and polls; the network hands up DNS_REGISTER frames)
NextGossip ==
    \/ GossipTick
    \/ WallTick
    \/ DnsRegisterStep
    \/ DnsRefreshStep
    \/ DnsUnregisterStep
    \/ DnsPollStep
    \/ DnsRegisterMsgStep

SpecGossip == InitGossip /\ [][NextGossip]_vars

InitFile == InitConn /\ relay_servers = 0

\* sending files: the host sends, pauses, resumes, cancels and polls; the
\* network hands up FILE_ACCEPT, FILE_COMPLETE, FILE_REJECT and FILE_CANCEL
NextFileSend ==
    \/ FileTick
    \/ FileSendStep
    \/ FilePollStep
    \/ FileCancelStep
    \/ FilePauseStep
    \/ FileResumeStep
    \/ FileSenderMsgStep

SpecFileSend == InitFile /\ [][NextFileSend]_vars

\* receiving files: the network hands up FILE_META, FILE_OFFER, FILE_CHUNK and
\* control frames; the host accepts, rejects, pauses, resumes and polls
NextFileRecv ==
    \/ FileTick
    \/ FilePollStep
    \/ FileAcceptStep
    \/ FileRejectStep
    \/ FilePauseStep
    \/ FileResumeStep
    \/ FileReceiverMsgStep

SpecFileRecv == InitFile /\ [][NextFileRecv]_vars

\* chunk senders: the frames of the sender, chunks from another node, local
\* accepts and polls
NextFileChunk ==
    \/ FileReceiverMsgStep
    \/ ForeignChunkStep
    \/ FileAcceptStep
    \/ FilePollStep

SpecFileChunk == InitFile /\ [][NextFileChunk]_vars

\* groups through the library alone: the host creates groups, accepts
\* invitations, leaves, removes members, names and unnames admins and rotates
\* keys
NextGroupApi ==
    \/ GroupCreateStep
    \/ GroupAcceptInviteStep
    \/ GroupLeaveStep
    \/ GroupRotateKeyStep
    \/ GroupRemoveMemberStep
    \/ GroupAddAdminStep
    \/ GroupRemoveAdminStep

SpecGroupApi == InitFile /\ [][NextGroupApi]_vars

\* groups the local user has left and goes on using
NextGroupLeft ==
    \/ GroupCreateStep
    \/ GroupAcceptInviteStep
    \/ GroupLeaveStep
    \/ GroupRotateKeyStep
    \/ GroupRemoveMemberStep
    \/ GroupAddAdminStep
    \/ GroupRemoveAdminStep
    \/ GroupSendTextStep

SpecGroupLeft == InitFile /\ [][NextGroupLeft]_vars

\* groups whose member lists the host keeps up to date
NextGroup ==
    \/ GroupCreateStep
    \/ GroupAcceptInviteStep
    \/ GroupLeaveStep
    \/ GroupRotateKeyStep
    \/ GroupRemoveMemberStep
    \/ GroupAddAdminStep
    \/ GroupRemoveAdminStep
    \/ HostSetMemberStep

SpecGroup == InitFile /\ [][NextGroup]_vars

\* the mail engine under host calls, inbound frames and polls
NextMail ==
    \/ MailTick
    \/ MailCreateStep
    \/ MailAddToStep
    \/ MailSendStep
    \/ MailSaveDraftStep
    \/ MailPollStep
    \/ MailMoveStep
    \/ MailDeleteStep
    \/ MailEmptyTrashStep
    \/ MailMsgStep

SpecMail == InitFile /\ [][NextMail]_vars

\* the presence engine under host calls and polls
NextPresence ==
    \/ PresenceTick
    \/ PresencePollStep
    \/ PresenceSetStatusStep
    \/ PresenceSetAutoAwayStep
    \/ PresenceActivityStep

SpecPresence == InitFile /\ [][NextPresence]_vars

\* the contact list under host calls
NextContact ==
    \/ ContactAddStep
    \/ ContactRemoveStep
    \/ ContactSetBlockedStep

SpecContact == InitFile /\ [][NextContact]_vars

(***************************************************************************)
(* Connection manager: properties                                          *)
(***************************************************************************)
\* C1: in every reachable state, a PeerConn with is_relayed set is in state
\* Relaying.
C1_RelayedImpliesRelaying ==
    \A p \in NodeIds :
        peers[p].active /\ peers[p].is_relayed => peers[p].state = "Relaying"

\* C2: a poll that finds a pending connect at least 5000 ms old whose peer is
\* not Connected calls relay.connect; on success the peer is left Relaying with
\* is_relayed set and the callback gets (Relaying, Ok), on failure the peer is
\* left Disconnected and the callback gets a timeout error; the pending record
\* is removed either way.
C2_RelayFallback ==
    [][ev'.op = "poll" =>
        \A p \in NodeIds :
            (/\ pending[p].active
             /\ Sub64(clock, pending[p].start_time) >= CYXCHAT_HOLE_PUNCH_TIMEOUT_MS
             /\ peers[p].active
             /\ peers[p].state # "Connected")
            => /\ ~pending'[p].active
               /\ ev'.fallback[p] \in {"ok", "fail"}
               /\ ev'.fallback[p] = "ok" =>
                    /\ peers'[p].state = "Relaying"
                    /\ peers'[p].is_relayed
                    /\ pending[p].has_cb => ev'.cb[p] = <<"Relaying", "OK">>
               /\ ev'.fallback[p] = "fail" =>
                    /\ peers'[p].state = "Disconnected"
                    /\ pending[p].has_cb => ev'.cb[p] = <<"Disconnected", "ERR_TIMEOUT">>
      ]_vars

\* C3: a send to a peer in state Relaying goes through relay.send, and a send
\* to a peer in state Connected goes through the direct transport.
C3_SendRoute ==
    \A p \in NodeIds :
        ev.op = "send" /\ ev.peer = p /\ peers[p].active =>
            /\ peers[p].state = "Relaying" => ev.route = "relay"
            /\ peers[p].state = "Connected" => ev.route = "direct"

C3_Witness ==
    \E p \in NodeIds :
        /\ ev.op = "send" /\ ev.peer = p
        /\ peers[p].state = "Relaying" /\ peers[p].is_relayed
        /\ ev.route = "relay"

\* C4: an inbound frame of any class from a peer in state Connecting leaves the
\* peer Connected with is_relayed clear and completes its pending connect with
\* (Connected, Ok).
C4_FirstFrameConnects ==
    [][ev'.op = "recv" =>
        \A p \in NodeIds :
            (ev'.peer = p /\ peers[p].active /\ peers[p].state = "Connecting")
            => /\ peers'[p].state = "Connected"
               /\ ~peers'[p].is_relayed
               /\ ~pending'[p].active
               /\ (pending[p].active /\ pending[p].has_cb)
                    => ev'.cb[p] = <<"Connected", "OK">>
      ]_vars

\* C5: a poll leaves Disconnected every peer that was Connected or Relaying
\* with last_activity more than 90 s old, and its timeout check disconnects no
\* peer whose last_activity is less than 90 s old.
C5_PeerTimeout ==
    [][ev'.op = "poll" =>
        \A p \in NodeIds :
            /\ (/\ peers[p].active
                /\ peers[p].state \in {"Connected", "Relaying"}
                /\ Sub64(clock, peers[p].last_activity) > CYXCHAT_CONNECTION_TIMEOUT_MS)
               => peers'[p].state = "Disconnected"
            /\ (/\ peers[p].active
                /\ Sub64(clock, peers[p].last_activity) < CYXCHAT_CONNECTION_TIMEOUT_MS)
               => p \notin ev'.timed_out
      ]_vars

C5_Witness ==
    \E p \in NodeIds :
        /\ ev.op = "poll"
        /\ p \in ev.timed_out
        /\ peers[p].state = "Disconnected"
        /\ peers[p].last_activity > 0

\* C6: two Announces the transport accepted for the same peer are at least
\* 60 s apart.
C6_AnnounceThrottle ==
    \A p \in NodeIds :
        ann_ok_at[p].prev # 0 =>
            ann_ok_at[p].last - ann_ok_at[p].prev >= CYXCHAT_ANNOUNCE_THROTTLE_MS

C6_Witness ==
    \E p \in NodeIds :
        /\ ev.op = "discovered" /\ ev.announce = "ok"
        /\ ann_ok_at[p].prev # 0
(***************************************************************************)
(* Chat engine: properties                                                 *)
(***************************************************************************)
\* C7: whenever the fragments of a text produced by send_text have been fed to
\* the receiver, in whatever order, the message queued on completion is the
\* 2-byte little-endian length of the text followed by the text, byte for byte.
C7_ReassemblyAnyOrder ==
    (ev.op = "deliver" /\ ev.chat.reassembled) =>
        LET n == msgs_sent[ev.chat.msg].text_len
        IN  ev.chat.data = LE16(n) \o TextOf(ev.chat.msg, n)

\* C8: a fragmented message is pushed to the pull queue at most once, however
\* often its fragments are handed up, before or after it completed.
C8_DeliveredOnce ==
    \A m \in 1..Len(msgs_sent) : msgs_sent[m].fragmented => delivered[m] <= 1

(***************************************************************************)
(* DNS engine: properties                                                  *)
(***************************************************************************)
\* the record a handled DNS_REGISTER or DNS_RESPONSE frame puts forward
IncomingRecord(msg) ==
    IF msg.type = CYXCHAT_MSG_DNS_RESPONSE THEN ResponseRecord(msg) ELSE deserialize_register(msg)

\* the frame just handled carried a record: a registration, or a found
\* response that matched a pending lookup
CarriedRecord(e) ==
    /\ e.op = "dns_msg"
    /\ \/ e.dns.rx.type = CYXCHAT_MSG_DNS_REGISTER
       \/ e.dns.rx.type = CYXCHAT_MSG_DNS_RESPONSE /\ e.dns.matched /\ e.dns.rx.found = 1

\* C9: when a frame (DNS_REGISTER or DNS_RESPONSE) brings a record r' for a
\* name the cache already holds a record r of, r' is written over r if and
\* only if r'.timestamp > r.timestamp and the signature of r' verifies.
C9_CacheReplacement ==
    [][(CarriedRecord(ev') /\ find_cache_entry(dns_cache, ev'.dns.rx.name) # {}) =>
        LET rnew == IncomingRecord(ev'.dns.rx)
            rold == dns_cache[MinOf(find_cache_entry(dns_cache, rnew.name))].record
        IN  ev'.dns.stored <=>
                (rnew.timestamp > rold.timestamp /\ verify_record_signature(has_crypto, rnew))
      ]_vars

\* the DNS_REGISTER frames among what a handler emitted
EmittedRegisters(e) ==
    {e.dns.emitted[i].msg : i \in {j \in DOMAIN e.dns.emitted :
                                     e.dns.emitted[j].msg.type = CYXCHAT_MSG_DNS_REGISTER}}

\* C10 as stated: a node that receives a verified DNS_REGISTER with hops = h
\* re-broadcasts it with hops = h + 1 if and only if h + 1 <= 3.
C10_RegossipIffHops ==
    [][(ev'.op = "dns_msg" /\ ev'.dns.rx.type = CYXCHAT_MSG_DNS_REGISTER
        /\ verify_record_signature(has_crypto, deserialize_register(ev'.dns.rx))) =>
        ((\E m \in EmittedRegisters(ev') : m.hops = ev'.dns.rx.hops + 1)
            <=> ev'.dns.rx.hops + 1 <= CYXCHAT_DNS_GOSSIP_HOPS)
      ]_vars

\* C10: a node re-broadcasts a received DNS_REGISTER(record, hops = h), with
\* hops = h + 1 and the record unchanged, if and only if h + 1 <= 3, the
\* signature verifies, the cache holds no record of that name with the same or
\* a newer timestamp, and the node has a router; and no handler ever emits a
\* DNS_REGISTER with hops > 3.
C10_RegossipBounded ==
    [][/\ \A m \in EmittedRegisters(ev') : m.hops <= CYXCHAT_DNS_GOSSIP_HOPS
       /\ (ev'.op = "dns_msg" /\ ev'.dns.rx.type = CYXCHAT_MSG_DNS_REGISTER) =>
            LET rx == ev'.dns.rx
                record == deserialize_register(rx)
            IN  /\ EmittedRegisters(ev') \subseteq {serialize_register(record, rx.hops + 1)}
                /\ EmittedRegisters(ev') # {} <=>
                     /\ rx.hops + 1 <= CYXCHAT_DNS_GOSSIP_HOPS
                     /\ verify_record_signature(has_crypto, record)
                     /\ ~have_same_or_newer(dns_cache, record)
                     /\ dns_router
      ]_vars

\* a registration that arrived with hops = 2 has just been re-broadcast with
\* hops = 3
C10_Witness ==
    /\ ev.op = "dns_msg"
    /\ ev.dns.rx.type = CYXCHAT_MSG_DNS_REGISTER
    /\ ev.dns.rx.hops = 2
    /\ \E m \in EmittedRegisters(ev) : m.hops = CYXCHAT_DNS_GOSSIP_HOPS

\* cyxchat_dns_is_cached: the cache holds an unexpired entry of the name
cyxchat_dns_is_cached(cache, name, now) ==
    LET entry == find_cache_entry(cache, name)
    IN  entry # {} /\ ~is_cache_expired(cache[MinOf(entry)], now)

\* C11: after register(name) has succeeded, the signed record of the name is
\* in the registrant's own cache, so that is_cached of the name answers yes.
C11_RegisteredIsCached ==
    (ev.op = "dns_register" /\ ev.dns.result = "OK" /\ ~dns_crashed) =>
        /\ cyxchat_dns_is_cached(dns_cache, my_record.name, clock)
        /\ dns_cache[MinOf(find_cache_entry(dns_cache, my_record.name))].record = my_record

(***************************************************************************)
(* File transfer engine: properties                                        *)
(***************************************************************************)
\* C12: in every reachable state, chunks_done of every incoming transfer is
\* the number of bits set in its chunk bitmap.
C12_ChunksDoneIsPopcount ==
    \A i \in DOMAIN transfers :
        (transfers[i].active /\ ~transfers[i].is_outgoing) =>
            transfers[i].chunks_done = count_received_chunks(transfers[i])

\* the FILE_CHUNK just handled belongs to the transfer in slot i and carries a
\* chunk index whose bytes were already in the receive buffer
DuplicateChunk(i) ==
    /\ ev'.op = "file_msg"
    /\ ev'.file.rx.type = CYXCHAT_MSG_FILE_CHUNK
    /\ i \in find_transfer(transfers, ev'.file.rx.file_id)
    /\ ev'.file.rx.chunk_idx \in transfers[i].written

\* C13: a FILE_CHUNK with an index that was already received leaves
\* chunks_done and the state of the transfer as they were and completes
\* nothing.
C13_DuplicateChunkIdempotent ==
    [][\A i \in DOMAIN transfers :
         DuplicateChunk(i) =>
            /\ transfers'[i].chunks_done = transfers[i].chunks_done
            /\ transfers'[i].state = transfers[i].state
            /\ \A k \in DOMAIN ev'.file.cb : ev'.file.cb[k].cb # "on_complete"
      ]_vars

\* the chunk indices n .. chunk_count - 1, in increasing order
TailChunks(n, chunk_count) ==
    [k \in 1..(IF chunk_count > n THEN chunk_count - n ELSE 0) |-> n + k - 1]

IsPrefix(a, b) == Len(a) <= Len(b) /\ \A k \in 1..Len(a) : a[k] = b[k]

\* C14: after FILE_ACCEPT(start_chunk = n) from the peer of an outgoing
\* transfer, the chunks emitted are n, n + 1, ... in increasing order, none
\* below n, and the sender gets through all of n .. chunk_count - 1: it is
\* not stopped in the middle of them.
C14_AcceptResumesAtStart ==
    \A i \in DOMAIN transfers :
        LET s == transfers[i]
            tail == TailChunks(s.accept_start, s.chunk_count)
        IN  (s.is_outgoing /\ s.accepted) =>
                /\ IsPrefix(s.sent_after, tail)
                /\ (file_crashed /\ s.state = "Sending") => s.sent_after = tail

\* the FILE_CHUNK frames of a file among what a call handed to cyxchat_send_raw
ChunksEmitted(e, file_id) ==
    {k \in DOMAIN e.file.emitted :
        /\ e.file.emitted[k].type = CYXCHAT_MSG_FILE_CHUNK
        /\ e.file.emitted[k].file_id = file_id}

\* C15: no call emits more than one FILE_CHUNK of a transfer (chunks go out
\* one per poll, no API call emits a burst).
C15_OneChunkPerCall ==
    \A f \in AllFileIds : Cardinality(ChunksEmitted(ev, f)) <= 1

TimeoutReported(e, file_id) ==
    \E k \in DOMAIN e.file.cb :
        e.file.cb[k] = FileCb("on_error", file_id, "CYXCHAT_ERR_TIMEOUT")

\* C16: a poll fails every Sending or Receiving transfer whose updated_at is
\* more than 60 s old, with on_error(timeout), and fails no transfer whose
\* updated_at is less than 60 s old.
C16_StallDetection ==
    [][(ev'.op = "file_poll" /\ ~file_crashed') =>
        \A i \in DOMAIN transfers :
            LET s == transfers[i]
                age == Sub64(clock, s.updated_at)
            IN  s.state \in {"Sending", "Receiving"} =>
                    /\ age > StallTimeoutMs =>
                            /\ transfers'[i].state = "Failed"
                            /\ TimeoutReported(ev', s.file_id)
                    /\ age < StallTimeoutMs => ~TimeoutReported(ev', s.file_id)
      ]_vars

\* C17: a FILE_COMPLETE that is processed and whose verify_hash differs from
\* the file_hash of the transfer leaves the transfer Failed, and on_complete
\* is not called.
C17_CompleteHashMismatchFails ==
    [][\A i \in DOMAIN transfers :
         (/\ ev'.op = "file_msg"
          /\ ev'.file.rx.type = CYXCHAT_MSG_FILE_COMPLETE
          /\ ev'.file.result = "OK"
          /\ i \in find_transfer(transfers, ev'.file.rx.file_id)
          /\ ev'.file.rx.verify_hash # transfers[i].file_hash) =>
            /\ transfers'[i].state = "Failed"
            /\ \A k \in DOMAIN ev'.file.cb : ev'.file.cb[k].cb # "on_complete"
      ]_vars

(***************************************************************************)
(* Group engine: properties                                                *)
(***************************************************************************)
Owners(group) ==
    {k \in 1..Len(group.members) : group.members[k].role = CYXCHAT_ROLE_OWNER}

\* C18: in every reachable state, every group of the local table has exactly
\* one member with role Owner.
C18_ExactlyOneOwner ==
    \A i \in 1..Len(groups) : Cardinality(Owners(groups[i])) = 1

\* the group the call just made was about, as it was before and as it is now
GroupBefore(e) == groups[MinOf(find_group(groups, e.group.id))]

GroupAfter(e) == groups'[MinOf(find_group(groups, e.group.id))]

\* C19: every member removal that succeeds, a remove_member as well as a
\* leave, rotates the group key, and every rotation strictly increments
\* key_version.
C19_RemovalRotatesKey ==
    [][(/\ ev'.op \in {"group_remove_member", "group_leave", "group_rotate_key"}
        /\ ev'.group.result = "OK") =>
            GroupAfter(ev').key_version > GroupBefore(ev').key_version
      ]_vars

\* the role of a node in a group, if it is a member of it
HasRole(group, node_id, roles) ==
    is_member(group, node_id) /\ get_role(group, node_id) \in roles

\* C20: remove_member by a local user who is Admin never removes an Admin or
\* the Owner, and remove_member by a local user who is a plain Member never
\* removes anyone: the call returns an error and the groups stay as they are.
C20_AdminCannotKickAdmins ==
    [][(ev'.op = "group_remove_member" /\ find_group(groups, ev'.group.id) # {}) =>
        LET group == GroupBefore(ev')
            refused == ev'.group.result # "OK" /\ groups' = groups
        IN  /\ (/\ HasRole(group, LocalId, {CYXCHAT_ROLE_ADMIN})
                /\ HasRole(group, ev'.group.target,
                           {CYXCHAT_ROLE_ADMIN, CYXCHAT_ROLE_OWNER})) => refused
            /\ HasRole(group, LocalId, {CYXCHAT_ROLE_MEMBER}) => refused
      ]_vars

\* the local user, an Admin of a group, has just been refused the removal of
\* another Admin
C20_Witness ==
    /\ ev.op = "group_remove_member"
    /\ ev.group.result = "CYXCHAT_ERR_NOT_ADMIN"
    /\ ev.group.target # LocalId
    /\ \E i \in 1..Len(groups) :
          /\ groups[i].group_id = ev.group.id
          /\ HasRole(groups[i], LocalId, {CYXCHAT_ROLE_ADMIN})
          /\ HasRole(groups[i], ev.group.target, {CYXCHAT_ROLE_ADMIN})

(***************************************************************************)
(* Relay client: properties                                                *)
(***************************************************************************)
\* C21: a poll frees every relay session whose last_activity is more than
\* 10 s old, and frees no session whose last_activity is at most 10 s old.
C21_RelayIdleTimeout ==
    [][ev'.op = "poll" =>
        \A p \in NodeIds :
            relay_conns[p].active =>
                /\ clock - relay_conns[p].last_activity > 10000
                     => /\ p \in ev'.relay_freed
                        /\ (relay_conns'[p].active => ev'.fallback[p] = "ok")
                /\ clock - relay_conns[p].last_activity <= 10000
                     => /\ p \notin ev'.relay_freed
                        /\ relay_conns'[p].active
      ]_vars

\* a poll has left alone a session exactly 10 s idle, or freed an older one
C21_Witness ==
    \E p \in NodeIds :
        /\ ev.op = "poll"
        /\ \/ /\ relay_conns[p].active
              /\ clock - relay_conns[p].last_activity = CYXCHAT_RELAY_TIMEOUT_MS
           \/ /\ p \in ev.relay_freed
              /\ ~relay_conns[p].active

\* C22: a relay session that a poll keeps emits a KEEPALIVE at that poll once
\* 30 s have passed since its previous one, so that no session goes longer
\* than 30 s without a KEEPALIVE while polls are made.
C22_KeepaliveEvery30s ==
    [][ev'.op = "poll" =>
        \A p \in NodeIds :
            (/\ relay_conns[p].active
             /\ p \notin ev'.relay_freed
             /\ clock - relay_conns[p].last_keepalive >= 30000)
            => relay_conns'[p].last_keepalive = clock
      ]_vars

(***************************************************************************)
(* Chat engine: receive queue properties                                   *)
(***************************************************************************)
\* number of messages in the receive queue
QueueLen == (recv_head - recv_tail + RECV_QUEUE_SIZE) % RECV_QUEUE_SIZE

\* C23: the receive queue is a FIFO of up to 32 messages: a message that
\* arrives while fewer than 32 are queued drops nothing and leaves one more
\* queued; only an arrival at a queue of 32 drops the oldest.
C23_QueueHolds32 ==
    [][(ev'.op = "deliver" /\ ev'.chat.pushed /\ QueueLen < 32) =>
            /\ recv_tail' = recv_tail
            /\ QueueLen' = QueueLen + 1
      ]_vars

(***************************************************************************)
(* Mail engine: properties                                                 *)
(***************************************************************************)
\* the active pending entries that hold the mail with this id
PendingFor(pd, mail_id) ==
    {i \in PendingSlots : pd[i].active /\ pd[i].mail.mail_id = mail_id}

\* C24: a mail that send accepted is in the pending queue when send returns;
\* a poll re-emits every pending entry whose last_retry is at least 30 s old
\* and has fewer than 3 retries, counting the retry, and bounces the others:
\* status Failed, folder Sent, on_bounce with reason Timeout.
C24_PendingUntilResolved ==
    [][/\ (ev'.op = "mail_send" /\ ev'.mail.result = "OK")
            => PendingFor(mail_pending', ev'.mail.id) # {}
       /\ ev'.op = "mail_poll" =>
            \A i \in PendingSlots :
                (mail_pending[i].active /\ clock - mail_pending[i].last_retry >= 30000) =>
                    IF mail_pending[i].retries < 3
                    THEN /\ mail_pending'[i].active
                         /\ mail_pending'[i].retries = mail_pending[i].retries + 1
                    ELSE /\ ~mail_pending'[i].active
                         /\ \E k \in 1..Len(ev'.mail.cb) :
                                ev'.mail.cb[k] = MailCb("on_bounce",
                                    mail_pending[i].mail.mail_id, CYXCHAT_BOUNCE_TIMEOUT)
                         /\ \E k \in find_mail(mail_stored', mail_pending[i].mail.mail_id) :
                                /\ mail_stored'[k].status = CYXCHAT_MAIL_STATUS_FAILED
                                /\ mail_stored'[k].folder_type = CYXCHAT_FOLDER_SENT
      ]_vars

\* C26: delete on a stored mail outside Trash leaves it stored, in Trash;
\* delete on a stored mail in Trash removes it, and the id is no longer found.
C26_DeleteTwice ==
    [][(ev'.op = "mail_delete" /\ find_mail(mail_stored, ev'.mail.id) # {}) =>
        LET mail_id == ev'.mail.id
            before == mail_stored[MinOf(find_mail(mail_stored, mail_id))]
            after == find_mail(mail_stored', mail_id)
        IN  IF before.folder_type # CYXCHAT_FOLDER_TRASH
            THEN /\ after # {}
                 /\ mail_stored'[MinOf(after)].folder_type = CYXCHAT_FOLDER_TRASH
            ELSE after = {}
      ]_vars

(***************************************************************************)
(* Presence engine: properties                                             *)
(***************************************************************************)
\* C25: with auto-away configured, a poll that sees last_activity older than
\* the timeout leaves the status Away and remembers the status it replaced;
\* the next activity() call restores exactly that status (unless the host
\* has set a status of its own in between).
C25_AutoAwayRestores ==
    [][/\ (/\ ev'.op = "presence_poll"
            /\ presence.auto_away_timeout > 0
            /\ clock - presence.last_activity > presence.auto_away_timeout)
           => /\ presence'.our_status = CYXCHAT_PRESENCE_AWAY
              /\ ~presence.auto_away_active
                    => presence'.status_before_away = presence.our_status
       /\ (ev'.op = "presence_activity" /\ presence.owed # NoneOwed)
           => presence'.our_status = presence.owed
      ]_vars

(***************************************************************************)
(* Contact list: properties                                                *)
(***************************************************************************)
ContactSet(list) == {list[i] : i \in 1..Len(list)}

ContactNodeIds(list) == {list[i].node_id : i \in 1..Len(list)}

\* C27: the contact list never holds a node id twice: an add of a node id
\* already present returns ERR_EXISTS and changes nothing, and a remove
\* leaves every other contact in the list, findable and as it was.
C27_ContactsUnique ==
    [][/\ \A i, j \in 1..Len(contacts') :
            contacts'[i].node_id = contacts'[j].node_id => i = j
       /\ (ev'.op = "contact_add" /\ ev'.contact.id \in ContactNodeIds(contacts))
            => /\ ev'.contact.result = "ERR_EXISTS"
               /\ contacts' = contacts
       /\ (ev'.op = "contact_remove" /\ ev'.contact.result = "OK")
            => /\ ContactSet(contacts') =
                    {c \in ContactSet(contacts) : c.node_id # ev'.contact.id}
               /\ \A c \in ContactSet(contacts') :
                    cyxchat_contact_find(contacts', c.node_id) # {}
      ]_vars

\* a contact has been removed from a list that still holds two others
C27_Witness ==
    /\ ev.op = "contact_remove"
    /\ ev.contact.result = "OK"
    /\ Len(contacts) = 2
(***************************************************************************)
(* File transfer engine: completion and state machine properties          *)
(***************************************************************************)
\* C28: an incoming transfer is Completed only if the bytes of every chunk
\* index 0 .. chunk_count - 1 were copied into its buffer at least once.
C28_CompleteHasEveryChunk ==
    \A i \in DOMAIN transfers :
        (transfers[i].active /\ ~transfers[i].is_outgoing
         /\ transfers[i].state = "Completed") =>
            \A k \in 0..(transfers[i].chunk_count - 1) : k \in transfers[i].written

\* the state changes the sender machine allows
SenderChanges ==
    {<<"Pending", "Sending">>, <<"Sending", "Completed">>, <<"Sending", "Failed">>,
     <<"Sending", "Cancelled">>, <<"Sending", "Paused">>, <<"Paused", "Sending">>}

\* the state changes the receiver machine allows; the first one is for a
\* local accept only
ReceiverChanges ==
    {<<"Pending", "Receiving">>, <<"Receiving", "Completed">>,
     <<"Receiving", "Failed">>, <<"Receiving", "Cancelled">>}

\* slot i holds the same transfer before and after the step, in another state
StateChanged(i) ==
    /\ i \in DOMAIN transfers /\ i \in DOMAIN transfers'
    /\ transfers[i].active /\ transfers'[i].active
    /\ transfers'[i].file_id = transfers[i].file_id
    /\ transfers'[i].is_outgoing = transfers[i].is_outgoing
    /\ transfers'[i].state # transfers[i].state

\* C29: every state change of a transfer is one of its machine: a sender
\* goes Pending -> Sending -> {Completed, Failed, Cancelled}, with Paused
\* entered from Sending and left to Sending; a receiver goes Pending ->
\* Receiving through a local accept only, then to {Completed, Failed,
\* Cancelled}.
C29_AllowedStateChanges ==
    [][\A i \in DOMAIN transfers :
         StateChanged(i) =>
            IF transfers[i].is_outgoing
            THEN <<transfers[i].state, transfers'[i].state>> \in SenderChanges
            ELSE /\ <<transfers[i].state, transfers'[i].state>> \in ReceiverChanges
                 /\ transfers[i].state = "Pending" => ev'.op = "file_accept"
      ]_vars

(***************************************************************************)
(* Connection manager: inbound frame bookkeeping                           *)
(***************************************************************************)
\* C30: every inbound frame from a peer that has a PeerConn, whatever its
\* class, sets that peer's last_activity to the receive time and adds the
\* frame length to its bytes_received.
C30_EveryFrameCounts ==
    [][(ev'.op = "recv" /\ find_peer_conn(peers, ev'.peer)) =>
          /\ peers'[ev'.peer].last_activity = clock'
          /\ ev'.peer \in ev'.counted
      ]_vars

(***************************************************************************)
(* Connection manager: key exchange properties                             *)
(***************************************************************************)
\* C31: when an Announce of a peer is received and processed (not dropped by
\* the 60 s inbound throttle, key registered with the onion layer), the
\* peer's PeerConn is Connected afterwards, whatever its state was.
C31_AnnounceConnects ==
    [][(ev'.op = "recv" /\ ev'.cls = "announce" /\ ev'.key = "ok"
        /\ peers'[ev'.peer].active) =>
          peers'[ev'.peer].state = "Connected"
      ]_vars

(***************************************************************************)
(* File transfer engine: terminal states, chunk senders                    *)
(***************************************************************************)
\* the step just taken fired on_complete or on_error for file f
TerminalCbFired(f) ==
    \E k \in DOMAIN ev'.file.cb :
        /\ ev'.file.cb[k].file_id = f
        /\ ev'.file.cb[k].cb \in {"on_complete", "on_error"}

\* C32: once a transfer is Completed or Failed, no poll and no inbound
\* message changes its state or fires on_complete or on_error for it again
\* (so on_complete is invoked at most once for a transfer).
C32_TerminalIsFinal ==
    [][\A i \in DOMAIN transfers :
         (/\ transfers[i].active
          /\ transfers[i].state \in {"Completed", "Failed"}
          /\ \/ ev'.op = "file_poll"
             \/ /\ ev'.op = "file_msg"
                /\ ev'.file.rx.type \in {CYXCHAT_MSG_FILE_ACCEPT, CYXCHAT_MSG_FILE_COMPLETE,
                                         CYXCHAT_MSG_FILE_CHUNK}) =>
            /\ ~TerminalCbFired(transfers[i].file_id)
            /\ (i \in DOMAIN transfers' /\ transfers'[i].active
                /\ transfers'[i].file_id = transfers[i].file_id) =>
                   transfers'[i].state = transfers[i].state
      ]_vars

(***************************************************************************)
(* Connection manager: pending connects, relay sessions                    *)
(***************************************************************************)
\* C33: the completion callback of a pending connect is invoked in the step
\* that discards the pending record, on every path that discards it, and a
\* step that invokes it discards the record, so that it is never invoked
\* twice.
C33_CallbackExactlyOnce ==
    [][\A p \in NodeIds :
         (pending[p].active /\ pending[p].has_cb) =>
            /\ ~pending'[p].active => ev'.cb[p] # NoCb
            /\ (ev'.op # "connect" /\ ev'.cb[p] # NoCb) => ~pending'[p].active
      ]_vars

\* C34: in every reachable state, a PeerConn in state Relaying has a live
\* relay session: a peer whose session was freed is not left Relaying with
\* is_relayed set.
C34_RelayingHasSession ==
    \A p \in NodeIds :
        (peers[p].active /\ peers[p].state = "Relaying" /\ peers[p].is_relayed) =>
            find_connection(relay_conns, p)

(***************************************************************************)
(* DNS engine: responses, tombstones, query ids                            *)
(***************************************************************************)
\* the DNS_RESPONSE just handled matched a pending lookup and carried a
\* record signed by its registrant over name, pubkey and some timestamp
ValidResponseHandled ==
    /\ ev'.op = "dns_msg"
    /\ ev'.dns.rx.type = CYXCHAT_MSG_DNS_RESPONSE
    /\ ev'.dns.rx.found = 1
    /\ ev'.dns.matched
    /\ \E t \in Timestamps :
          ev'.dns.rx.signature = SigOf(ev'.dns.rx.name, ev'.dns.rx.pubkey, t, ev'.dns.rx.pubkey)

\* C35: a DNS_RESPONSE with found = 1 that matches a pending lookup and
\* carries a validly signed record passes the signature check: the record is
\* cached and the pending callback gets the record.
C35_ValidResponseAccepted ==
    [][ValidResponseHandled =>
          /\ ev'.dns.stored
          /\ find_cache_entry(dns_cache', ev'.dns.rx.name) # {}
          /\ \A c \in ev'.dns.lookup_cb : c[2] = "record"
      ]_vars

\* slot i holds a tombstone that was stored over the cached entry of its
\* name, whether a poll has expired the slot since or not
TombstoneStored(i) ==
    /\ i \in DOMAIN dns_cache
    /\ dns_cache[i].record.ttl = 0
    /\ dns_cache[i].record.name # ""
    /\ dns_cache[i].over

\* C36: after a tombstone with timestamp t has replaced the cached entry of a
\* name, no DNS_REGISTER for that name with timestamp <= t is accepted into
\* the cache, also after polls have run.
C36_TombstoneBlocksOlder ==
    [][\A i \in DOMAIN dns_cache :
         (/\ TombstoneStored(i)
          /\ ev'.op = "dns_msg"
          /\ ev'.dns.rx.type \in RegisterTypes
          /\ ev'.dns.rx.name = dns_cache[i].record.name
          /\ ev'.dns.rx.timestamp <= dns_cache[i].record.timestamp) =>
            ~ev'.dns.stored
      ]_vars

\* the query ids of the pending lookups are pairwise distinct
QueryIdsDistinct ==
    \A i, j \in LookupSlots :
        (i # j /\ pending_lookups[i].active /\ pending_lookups[j].active) =>
            pending_lookups[i].query_id # pending_lookups[j].query_id

\* the callbacks just invoked with a record were for the name of that record
CallbackForOwnName ==
    (ev'.op = "dns_msg" /\ ev'.dns.rx.type = CYXCHAT_MSG_DNS_RESPONSE) =>
        \A c \in ev'.dns.lookup_cb : c[2] = "record" => c[1] = ev'.dns.rx.name

\* C37: the query ids of simultaneously pending lookups are pairwise
\* distinct, also after the 8-bit query id has wrapped, and the callback of a
\* lookup is never invoked with the record of another name.
C37_LookupGetsOwnAnswer ==
    [][QueryIdsDistinct' /\ CallbackForOwnName]_vars

(***************************************************************************)
(* Chat engine: delivery of reassembled messages                           *)
(***************************************************************************)
\* C38: when the fragment that completes a message arrives, the reassembled
\* text is delivered both through the on_message callback and into the pull
\* queue.
C38_ReassembledToBoth ==
    [][(ev'.op = "deliver" /\ ev'.chat.reassembled) =>
          /\ ev'.chat.pushed
          /\ ev'.chat.on_message
      ]_vars

(***************************************************************************)
(* File transfer engine: who may send chunks                               *)
(***************************************************************************)
\* C39: a FILE_CHUNK from a node other than the transfer's peer is not
\* applied: buffer, chunks_done and state of the transfer stay as they were.
C39_ChunksFromPeerOnly ==
    [][\A i \in DOMAIN transfers :
         (/\ ev'.op = "file_msg"
          /\ ev'.file.rx.type = CYXCHAT_MSG_FILE_CHUNK
          /\ i \in find_transfer(transfers, ev'.file.rx.file_id)
          /\ transfers[i].peer # ev'.peer) =>
            /\ transfers'[i].written = transfers[i].written
            /\ transfers'[i].chunks_done = transfers[i].chunks_done
            /\ transfers'[i].state = transfers[i].state
      ]_vars

(***************************************************************************)
(* Group engine: operations after leave                                    *)
(***************************************************************************)
\* the operations of the local user that change a group or send to it
GroupMutators ==
    {"group_remove_member", "group_add_admin", "group_remove_admin",
     "group_rotate_key", "group_send_text"}

\* C40: after leave(group) has succeeded, no mutating operation of the local
\* user on that group succeeds or changes its members or its key_version.
C40_LeftGroupIsFrozen ==
    [][\A i \in 1..Len(groups) :
         (/\ groups[i].left
          /\ ev'.op \in GroupMutators
          /\ ev'.group.id = groups[i].group_id) =>
            /\ ev'.group.result # "OK"
            /\ groups'[i].members = groups[i].members
            /\ groups'[i].key_version = groups[i].key_version
      ]_vars

====
